---- MODULE Spec2Model ----
(***************************************************************************)
(* A model of the elicit command-line interpreter: the table-driven FSM of *)
(* elicit/ui.py, the lexer CommandParser of elicit/cli.py that is wired on *)
(* it, the environment expander of elicit/env.py, and the alias expansion, *)
(* dispatch and context stack of CommandController / CommandParser.        *)
(*                                                                         *)
(* Representation of Python values.  A str is a sequence of one-character  *)
(* strings.  None is the marker None below, and an int n is the sequence   *)
(* made of the marker "<int>" and the decimal digits of n; the markers are *)
(* longer than one character, so neither value equals a str.               *)
(***************************************************************************)
EXTENDS Integers, Sequences, FiniteSets, TLC

VARIABLES w,      \* the interpreter: parser, FSM, controllers, environments
          todo,   \* input text not yet handed to the interpreter
          fed,    \* input text handed to feed so far; for the context stack,
                  \* the calls and prompt events so far
          ret,    \* what the last feed returned
          mode,   \* the driver that is running the interpreter
          loop,   \* the locals of a running _expand_aliases
          budget, \* how many more tokens or events the source will produce
          split   \* TRUE once the text fed so far went in as more than one piece

vars == <<w, todo, fed, ret, mode, loop, budget, split>>

----------------------------------------------------------------------------
(* Python values *)

None == "<None>"

DigitChars == <<"0", "1", "2", "3", "4", "5", "6", "7", "8", "9">>

RECURSIVE Digits(_)
Digits(n) == IF n < 0 THEN <<"-">> \o Digits(0 - n)
             ELSE IF n < 10 THEN <<DigitChars[n + 1]>>
             ELSE Digits(n \div 10) \o <<DigitChars[(n % 10) + 1]>>

PyInt(n) == <<"<int>">> \o Digits(n)

IsInt(v) == v # None /\ Len(v) > 1 /\ v[1] = "<int>"

IsDigit(c) == \E d \in 0..9 : DigitChars[d + 1] = c

DigitValue(c) == CHOOSE d \in 0..9 : DigitChars[d + 1] = c

IsSpace(c) == c = " " \/ c = "\t" \/ c = "\n" \/ c = "\r"

RECURSIVE lstrip(_)
lstrip(s) == IF s # <<>> /\ IsSpace(s[1]) THEN lstrip(Tail(s)) ELSE s

RECURSIVE rstrip(_)
rstrip(s) == IF s # <<>> /\ IsSpace(s[Len(s)]) THEN rstrip(SubSeq(s, 1, Len(s) - 1)) ELSE s

Unsigned(s) == IF s # <<>> /\ (s[1] = "-" \/ s[1] = "+") THEN Tail(s) ELSE s

\* a decimal literal: digits, single underscores allowed between two digits
IsDecimal(s) ==
    /\ s # <<>>
    /\ IsDigit(s[1]) /\ IsDigit(s[Len(s)])
    /\ \A k \in 1..Len(s) : IsDigit(s[k]) \/ s[k] = "_"
    /\ \A k \in 1..(Len(s) - 1) : ~(s[k] = "_" /\ s[k + 1] = "_")

RECURSIVE DecimalValue(_)
DecimalValue(s) ==
    IF s = <<>> THEN 0
    ELSE IF s[Len(s)] = "_" THEN DecimalValue(SubSeq(s, 1, Len(s) - 1))
    ELSE 10 * DecimalValue(SubSeq(s, 1, Len(s) - 1)) + DigitValue(s[Len(s)])

SignedValue(s) == IF s[1] = "-" THEN 0 - DecimalValue(Tail(s)) ELSE DecimalValue(Unsigned(s))

IntOf(v) == SignedValue(Tail(v))

\* int(x) succeeds for an int and for a str holding a decimal literal
CanInt(v) == \/ IsInt(v)
             \/ v # None /\ IsDecimal(Unsigned(rstrip(lstrip(v))))

int(v) == IF IsInt(v) THEN IntOf(v) ELSE SignedValue(rstrip(lstrip(v)))

\* str(x)
str(v) == IF v = None THEN <<"N", "o", "n", "e">>
          ELSE IF IsInt(v) THEN Tail(v)
          ELSE v

\* sequencing: v is computed once, then F is applied to its value
Then(v, F(_)) == CHOOSE r \in {F(y) : y \in {v}} : TRUE

Last(s) == s[Len(s)]

Front(s) == SubSeq(s, 1, Len(s) - 1)

----------------------------------------------------------------------------
(* elicit/ui.py: the generic FSM *)

ANY == "ANY"

VARCHARS == <<"a", "b", "c", "d", "e", "f", "g", "h", "i", "j", "k", "l", "m",
              "n", "o", "p", "q", "r", "s", "t", "u", "v", "w", "x", "y", "z",
              "A", "B", "C", "D", "E", "F", "G", "H", "I", "J", "K", "L", "M",
              "N", "O", "P", "Q", "R", "S", "T", "U", "V", "W", "X", "Y", "Z",
              "0", "1", "2", "3", "4", "5", "6", "7", "8", "9", "_", "?">>

IsVarChar(c) == \E k \in 1..Len(VARCHARS) : VARCHARS[k] = c

BS == "<BS>"

_SPECIAL == [c \in {"r", "n", "t", "b"} |->
               CASE c = "r" -> "\r" [] c = "n" -> "\n" [] c = "t" -> "\t" [] c = "b" -> BS]

\* the registrations of CommandParser.initialize, in the order they are made
Registrations == <<
    [syms |-> <<ANY>>, state |-> 0, action |-> "_addtext", next |-> 0],
    [syms |-> <<" ", "\t">>, state |-> 0, action |-> "_wordbreak", next |-> 0],
    [syms |-> <<";", "\n">>, state |-> 0, action |-> "_doit", next |-> 0],
    [syms |-> <<"\\">>, state |-> 0, action |-> "None", next |-> 1],
    [syms |-> <<"\\">>, state |-> 3, action |-> "None", next |-> 6],
    [syms |-> <<ANY>>, state |-> 1, action |-> "_slashescape", next |-> 0],
    [syms |-> <<ANY>>, state |-> 6, action |-> "_slashescape", next |-> 3],
    [syms |-> <<"$">>, state |-> 0, action |-> "_startvar", next |-> 7],
    [syms |-> <<"{">>, state |-> 7, action |-> "_vartext", next |-> 9],
    [syms |-> VARCHARS, state |-> 7, action |-> "_vartext", next |-> 7],
    [syms |-> <<ANY>>, state |-> 7, action |-> "_endvar", next |-> 0],
    [syms |-> <<"}">>, state |-> 9, action |-> "_endvar", next |-> 0],
    [syms |-> <<ANY>>, state |-> 9, action |-> "_vartext", next |-> 9],
    [syms |-> <<"$">>, state |-> 3, action |-> "_startvar", next |-> 8],
    [syms |-> <<"{">>, state |-> 8, action |-> "_vartext", next |-> 10],
    [syms |-> VARCHARS, state |-> 8, action |-> "_vartext", next |-> 8],
    [syms |-> <<ANY>>, state |-> 8, action |-> "_endvar", next |-> 3],
    [syms |-> <<"}">>, state |-> 10, action |-> "_endvar", next |-> 3],
    [syms |-> <<ANY>>, state |-> 10, action |-> "_vartext", next |-> 10],
    [syms |-> <<"'">>, state |-> 0, action |-> "None", next |-> 2],
    [syms |-> <<"'">>, state |-> 2, action |-> "_singlequote", next |-> 0],
    [syms |-> <<ANY>>, state |-> 2, action |-> "_addtext", next |-> 2],
    [syms |-> <<"\"">>, state |-> 0, action |-> "None", next |-> 3],
    [syms |-> <<"\"">>, state |-> 3, action |-> "_doublequote", next |-> 0],
    [syms |-> <<ANY>>, state |-> 3, action |-> "_addtext", next |-> 3],
    [syms |-> <<"'">>, state |-> 3, action |-> "None", next |-> 5],
    [syms |-> <<"'">>, state |-> 5, action |-> "_singlequote", next |-> 3],
    [syms |-> <<ANY>>, state |-> 5, action |-> "_addtext", next |-> 5] >>

\* add_transitions(symbols, state, action, next_state) writes the entry of
\* every (symbol, state); the entry a key holds is the last one written to it
Writes(reg, key) == reg.state = key[2] /\ \E i \in 1..Len(reg.syms) : reg.syms[i] = key[1]

add_transitions(regs) ==
    LET keys == UNION {{<<regs[n].syms[i], regs[n].state>> : i \in 1..Len(regs[n].syms)} :
                       n \in 1..Len(regs)}
        last(key) == CHOOSE n \in 1..Len(regs) :
                         /\ Writes(regs[n], key)
                         /\ \A m \in (n + 1)..Len(regs) : ~Writes(regs[m], key)
    IN [key \in keys |-> <<regs[last(key)].action, regs[last(key)].next>>]

\* a variant whose escape inside double quotes returns to Bare
initialize_escape_to_bare ==
    [transitions |-> [add_transitions(Registrations) EXCEPT ![<<ANY, 6>>] = <<"_slashescape", 0>>],
     default_transition |-> <<"_error", 0>>]

\* CommandParser.initialize: the machine the lexer runs on
initialize == [transitions |-> add_transitions(Registrations),
               default_transition |-> <<"_error", 0>>]

\* FSM.get_transition: exact entry, else the ANY entry of the state; the third
\* lookup names SREType, which ui.py never defines, so reaching it raises
\* NameError before the default transition is looked at
get_transition(fsm, input_symbol, state) ==
    IF <<input_symbol, state>> \in DOMAIN fsm.transitions
    THEN fsm.transitions[<<input_symbol, state>>]
    ELSE IF <<ANY, state>> \in DOMAIN fsm.transitions
    THEN fsm.transitions[<<ANY, state>>]
    ELSE <<"NameError", state>>

\* next_state None
NoState == 0 - 1

\* default_transition None
NoDefault == <<>>

\* FSM.push
push(stack, obj) == Append(stack, obj)

\* FSM.pop: removes the top of the stack and returns nothing
pop(stack) == [stack |-> Front(stack), value |-> None]

----------------------------------------------------------------------------
(* elicit/env.py: Environ *)

get(env, name) == IF name \in DOMAIN env THEN env[name] ELSE None

setitem(env, name, val) ==
    [k \in DOMAIN env \cup {name} |-> IF k = name THEN val ELSE env[k]]

delitem(env, name) == [k \in DOMAIN env \ {name} |-> env[k]]

\* the end of the run of name characters that starts at position k
RECURSIVE NameEnd(_, _)
NameEnd(value, k) ==
    IF k + 1 <= Len(value) /\ IsVarChar(value[k + 1]) THEN NameEnd(value, k + 1) ELSE k

\* _var_re matched at position k: the position of the last character of the
\* match, or 0 when the pattern does not match there
MatchEnd(value, k) ==
    IF value[k] # "$" \/ k = Len(value) THEN 0
    ELSE IF IsVarChar(value[k + 1]) THEN NameEnd(value, k + 1)
    ELSE IF value[k + 1] = "{" /\ \E j \in (k + 2)..Len(value) : value[j] = "}"
    THEN CHOOSE j \in (k + 2)..Len(value) :
             /\ value[j] = "}"
             /\ \A h \in (k + 2)..(j - 1) : value[h] # "}"
    ELSE 0

\* _var_re.search(value, i): the leftmost position >= i where it matches, or 0
Search(value, i) ==
    IF \E k \in i..Len(value) : MatchEnd(value, k) # 0
    THEN CHOOSE k \in i..Len(value) :
             /\ MatchEnd(value, k) # 0
             /\ \A h \in i..(k - 1) : MatchEnd(value, h) = 0
    ELSE 0

\* Environ.expand; i is the 1-based position the next search starts at
RECURSIVE expand_from(_, _, _)
expand_from(env, value, i) ==
    LET m == Search(value, i) IN
    IF m = 0 THEN value
    ELSE LET j     == MatchEnd(value, m)
             grp   == SubSeq(value, m + 1, j)
             vname == IF grp[1] = "{" THEN SubSeq(grp, 2, Len(grp) - 1) ELSE grp
             tail  == SubSeq(value, j + 1, Len(value))
             tv    == get(env, vname)
             head  == IF tv # None THEN SubSeq(value, 1, m - 1) \o str(tv)
                      ELSE SubSeq(value, 1, m - 1)
         IN expand_from(env, head \o tail, Len(head) + 1)

\* a variant that expands what it has expanded
expand_twice(env, value) == expand_from(env, expand_from(env, value, 1), 1)

expand(env, value) == expand_from(env, value, 1)

\* Environ.set
set(env, name, val) == setitem(env, name, expand(env, str(val)))

\* nameval.split("=", 1): the position of the first `=`, 0 when there is none
FirstEq(nameval) ==
    IF \E k \in 1..Len(nameval) : nameval[k] = "="
    THEN CHOOSE k \in 1..Len(nameval) :
             nameval[k] = "=" /\ \A h \in 1..(k - 1) : nameval[h] # "="
    ELSE 0

\* a variant that expands after the name is stored
export_stores_first(env, nameval) ==
    LET k == FirstEq(nameval) IN
    IF k = 0 THEN [env |-> env, exc |-> [type |-> "ValueError", value |-> None]]
    ELSE LET name == SubSeq(nameval, 1, k - 1)
             val  == SubSeq(nameval, k + 1, Len(nameval))
         IN [env |-> setitem(env, name, expand(setitem(env, name, val), str(val))),
             exc |-> [type |-> "None", value |-> None]]

\* Environ.export; unpacking a nameval without `=` raises ValueError
export(env, nameval) ==
    LET k == FirstEq(nameval) IN
    IF k = 0 THEN [env |-> env, exc |-> [type |-> "ValueError", value |-> None]]
    ELSE LET name == SubSeq(nameval, 1, k - 1)
             val  == SubSeq(nameval, k + 1, Len(nameval))
         IN [env |-> setitem(env, name, expand(env, str(val))),
             exc |-> [type |-> "None", value |-> None]]

----------------------------------------------------------------------------
(* Words: command names and arguments *)

w_exit    == <<"e", "x", "i", "t">>
w_echo    == <<"e", "c", "h", "o">>
w_setenv  == <<"s", "e", "t", "e", "n", "v">>
w_unset   == <<"u", "n", "s", "e", "t">>
w_printf  == <<"p", "r", "i", "n", "t", "f">>
w_pipe    == <<"p", "i", "p", "e">>
w_spawn   == <<"s", "p", "a", "w", "n">>
w_sub     == <<"s", "u", "b">>
w_leave   == <<"l", "e", "a", "v", "e">>
w_intr    == <<"i", "n", "t", "r">>
w_usage   == <<"u", "s", "a", "g", "e">>
w_deep    == <<"d", "e", "e", "p">>
w_opt     == <<"o", "p", "t">>
w_boom    == <<"b", "o", "o", "m">>
w_clone   == <<"c", "l", "o", "n", "e">>
w_setup   == <<"_", "s", "e", "t", "u", "p">>
w_alias   == <<"a", "l", "i", "a", "s">>
w_unalias == <<"u", "n", "a", "l", "i", "a", "s">>
w_ls      == <<"l", "s">>
w_ll      == <<"l", "l">>
w_la      == <<"l", "a">>
w_l       == <<"-", "l">>
w_a       == <<"-", "a">>
w_extra   == <<"e", "x", "t", "r", "a">>
w_default == <<"d", "e", "f", "a", "u", "l", "t", "_", "c", "o", "m", "m", "a", "n", "d">>

n_SHLVL   == <<"S", "H", "L", "V", "L">>
n_last    == <<"_">>
n_status  == <<"?">>
n_HOME    == <<"H">>

startswith(word, c) == Len(word) > 0 /\ word[1] = c

----------------------------------------------------------------------------
(* The interpreter's objects *)

\* the command contexts of a session: A is the outermost one, B is a
\* sub-context built on A's user interface (the same Environ object), C a
\* sub-context built on a clone of it (UserInterface.clone copies the Environ)
Controllers == {"A", "B", "C"}

EnvOf == [c \in Controllers |-> IF c = "C" THEN "e2" ELSE "e1"]

Environs == {"e1", "e2"}

\* the context a controller's `sub` command enters
SubOf == [c \in {"A", "B"} |-> IF c = "A" THEN "B" ELSE "C"]

NoExc == [type |-> "None", value |-> None]

Exc(type, value) == [type |-> type, value |-> value]

Raise(x, type, value) == [x EXCEPT !.exc = Exc(type, value)]

Raised(x) == x.exc.type # "None"

\* UserInterface.print / printf / error and the controller's except_hook,
\* recorded on one output log
Out(x, channel, text, word) ==
    [x EXCEPT !.out = Append(@, [ch |-> channel, msg |-> text, arg |-> word])]

\* the session's first Environ: UserInterface.__init__ stores None under "_"
Environ0 == (n_last :> None) @@ (n_HOME :> <<"/", "u">>)

----------------------------------------------------------------------------
(* elicit/cli.py: CommandController *)

\* a variant that leaves the list in its order
reverse_same(l) == l

RECURSIVE reverse(_)
reverse(l) == IF l = <<>> THEN <<>> ELSE Append(reverse(Tail(l)), Head(l))

\* for arg in rl: argv.insert(0, arg)
RECURSIVE insert_each(_, _)
insert_each(argv, rl) ==
    IF rl = <<>> THEN argv ELSE insert_each(<<Head(rl)>> \o argv, Tail(rl))

\* a variant that substitutes once and returns
expand_iter_once(aliases, st) ==
    LET alias == aliases[st.argv[1]] IN
    IF st.argv[1] \in DOMAIN aliases /\ alias # <<>> /\ alias[1] \notin st.seen
    THEN [argv |-> insert_each(Tail(st.argv), reverse(alias)),
          seen |-> st.seen \cup {alias[1]},
          done |-> TRUE]
    ELSE [st EXCEPT !.done = TRUE]

\* one pass of the `while 1` loop of _expand_aliases over its locals
expand_iter(aliases, st) ==
    \* alias = self._aliases.get(argv[0], None); if alias:
    LET alias == aliases[st.argv[1]] IN
    IF st.argv[1] \in DOMAIN aliases /\ alias # <<>>
    THEN IF alias[1] \in st.seen
         THEN [st EXCEPT !.done = TRUE]
         ELSE [argv |-> insert_each(Tail(st.argv), reverse(alias)),
               seen |-> st.seen \cup {alias[1]},
               done |-> FALSE]
    ELSE [st EXCEPT !.done = TRUE]

RECURSIVE expand_loop(_, _)
expand_loop(aliases, st) ==
    IF st.done THEN st.argv
    ELSE Then(expand_iter(aliases, st), LAMBDA st1 : expand_loop(aliases, st1))

_expand_aliases(aliases, argv) ==
    expand_loop(aliases, [argv |-> argv, seen |-> {}, done |-> FALSE])

\* " ".join(words)
RECURSIVE join(_)
join(words) == IF words = <<>> THEN <<>>
               ELSE IF Len(words) = 1 THEN words[1]
               ELSE words[1] \o <<" ">> \o join(Tail(words))

\* the members of the command object that getattr finds: the BaseCommands
\* methods used here, and the commands a session's own subclass adds, one
\* for each way a handler can end
Members(ctl) ==
    {w_exit, w_echo, w_setenv, w_unset, w_printf, w_clone, w_setup, w_default}
    \cup {w_alias, w_unalias}
    \cup {w_leave, w_intr, w_usage, w_deep, w_opt, w_boom}
    \cup (IF ctl \in DOMAIN SubOf THEN {w_sub} ELSE {})

\* a variant that reports the unknown name and returns nothing
default_command_no_status(x, argv) ==
    [Out(x, "error", "unknown command", argv[1]) EXCEPT !.rv = None]

\* BaseCommands.default_command
default_command(x, argv) ==
    [Out(x, "error", "unknown command", argv[1]) EXCEPT !.rv = PyInt(2)]

\* the loop of alias over the table's items, one line for each (the table is
\* kept without its insertion order, the lines come in an order of the names)
RECURSIVE print_aliases(_, _, _)
print_aliases(x, table, names) ==
    IF names = {} THEN x
    ELSE LET name == CHOOSE n \in names : TRUE IN
         print_aliases(Out(x, "print", "alias", (name \o <<"=">>) \o join(table[name])),
                       table, names \ {name})

\* BaseCommands.alias: list, show one, or set one; the `=` may be inside the
\* name word, lead the next word or be a word of its own
alias(x, ctl, argv) ==
    LET table == x.aliases[ctl] IN
    IF Len(argv) = 1
    THEN [print_aliases(x, table, DOMAIN table) EXCEPT !.rv = PyInt(0)]
    ELSE IF Len(argv) = 2 /\ FirstEq(argv[2]) = 0
    THEN IF argv[2] \in DOMAIN table
         THEN [Out(x, "print", "alias", (argv[2] \o <<"=">>) \o join(table[argv[2]]))
                  EXCEPT !.rv = PyInt(0)]
         ELSE [Out(x, "print", "undefined alias.", <<>>) EXCEPT !.rv = PyInt(0)]
    ELSE
    LET word == argv[2]
        rest == SubSeq(argv, 3, Len(argv))
        k    == FirstEq(word)
        name == IF k > 0 THEN SubSeq(word, 1, k - 1) ELSE word
        val  == IF k > 0 THEN <<SubSeq(word, k + 1, Len(word))>> \o rest
                ELSE IF startswith(rest[1], "=")
                THEN IF Len(rest[1]) > 1 THEN <<Tail(rest[1])>> \o Tail(rest)
                     ELSE Tail(rest)
                ELSE rest
    IN [x EXCEPT !.aliases[ctl] = (name :> val) @@ table, !.rv = None]

\* BaseCommands.unalias
unalias(x, ctl, argv) ==
    LET table == x.aliases[ctl]
        left  == DOMAIN table \ {argv[2]}
    IN
    IF Len(argv) < 2 THEN [Out(x, "print", "usage", w_unalias) EXCEPT !.rv = None]
    ELSE IF argv[2] \in DOMAIN table
    THEN [x EXCEPT !.aliases[ctl] = IF left = {} THEN <<>> ELSE [n \in left |-> table[n]],
                   !.rv = None]
    ELSE [Out(x, "print", "unalias: not found", argv[2]) EXCEPT !.rv = None]

\* meth(argv): the handler body; leaves its result in rv or its exception in exc
invoke(x, ctl, name, argv) ==
    LET e   == EnvOf[ctl]
        env == x.environ[e]
    IN
    CASE name = w_exit -> Raise(x, "CommandQuit", w_exit)
      [] name = w_echo ->
            LET x1 == Out(x, "printf", "echo", join(Tail(argv))) IN
            IF n_last \in DOMAIN env THEN [x1 EXCEPT !.rv = env[n_last]]
            ELSE Raise(x1, "KeyError", n_last)
      [] name = w_setenv ->
            IF Len(argv) < 3 THEN [Out(x, "print", "usage", w_setenv) EXCEPT !.rv = None]
            ELSE LET env1 == setitem(env, argv[2], argv[3])
                     x1   == [x EXCEPT !.environ[e] = env1]
                 IN IF n_last \in DOMAIN env1 THEN [x1 EXCEPT !.rv = env1[n_last]]
                    ELSE Raise(x1, "KeyError", n_last)
      [] name = w_unset ->
            IF Len(argv) >= 2 /\ argv[2] \in DOMAIN env
            THEN [x EXCEPT !.environ[e] = delitem(env, argv[2]), !.rv = None]
            ELSE [x EXCEPT !.rv = PyInt(1)]
      [] name = w_printf ->
            IF Len(argv) < 2 THEN Raise(x, "IndexError", PyInt(1))
            ELSE [Out(x, "printf", "printf", argv[2]) EXCEPT !.rv = None]
      [] name = w_default -> default_command(x, argv)
      [] name = w_alias -> alias(x, ctl, argv)
      [] name = w_unalias -> unalias(x, ctl, argv)
      [] name = w_sub ->
            \* the new context's user interface: the handler's own, or a clone
            \* of it, whose Environ is a copy made now
            Raise([x EXCEPT !.environ[EnvOf[SubOf[ctl]]] = env], "NewCommand", SubOf[ctl])
      [] name = w_leave -> Raise(x, "CommandExit", None)
      [] name = w_intr -> Raise(x, "KeyboardInterrupt", None)
      [] name = w_usage -> Raise(x, "CLISyntaxError", argv[1])
      [] name = w_deep -> Raise(x, "IndexError", PyInt(2))
      [] name = w_opt -> Raise(x, "GetoptError", argv[1])
      [] name = w_boom -> Raise(x, "ValueError", argv[1])
      [] OTHER -> Raise(x, "TypeError", name)

FlowSignals == {"NewCommand", "CommandQuit", "CommandExit", "KeyboardInterrupt"}

\* CommandController.except_hook
except_hook(x, ex, val) == Out(x, "error", "except_hook", val)

\* one entry of the dispatch log: what call was given, which member it
\* invoked with which argv (<<>> when none), how the handler and call ended
Logged(x, ctl, argv, name, hargv, hexc) ==
    [x EXCEPT !.calls = Append(@, [ctl |-> ctl, argv |-> argv, name |-> name,
                                   hargv |-> hargv, hexc |-> hexc,
                                   rv |-> x.rv, exc |-> x.exc])]

\* a variant that stores status 0 when the handler returns None
outcome_status_always(x, ctl) ==
    LET e  == EnvOf[ctl]
        ex == x.exc
        x0 == [x EXCEPT !.exc = NoExc, !.rv = None]
    IN
    IF ex.type \in FlowSignals THEN x
    ELSE IF ex.type = "CLISyntaxError"
    THEN Raise(Out(x0, "printf", "Syntax error", ex.value), "AttributeError", None)
    ELSE IF ex.type = "IndexError"
    THEN IF ex.value = PyInt(1)
         THEN Raise(Out(x0, "printf", "Insufficient number of arguments.", <<>>),
                    "AttributeError", None)
         ELSE except_hook(x0, ex.type, ex.value)
    ELSE IF ex.type = "GetoptError" THEN Out(x0, "print", "option", ex.value)
    ELSE IF ex.type # "None" THEN except_hook(x0, ex.type, ex.value)
    ELSE IF x.rv # None
    THEN [x EXCEPT !.environ[e] =
              setitem(setitem(@, n_status,
                              IF CanInt(x.rv) THEN PyInt(int(x.rv)) ELSE PyInt(0)),
                      n_last, x.rv)]
    ELSE [x EXCEPT !.environ[e] = setitem(@, n_status, PyInt(0))]

\* a variant that stores the result itself as the last status
outcome_raw_status(x, ctl) ==
    LET e  == EnvOf[ctl]
        ex == x.exc
        x0 == [x EXCEPT !.exc = NoExc, !.rv = None]
    IN
    IF ex.type \in FlowSignals THEN x
    ELSE IF ex.type = "CLISyntaxError"
    THEN Raise(Out(x0, "printf", "Syntax error", ex.value), "AttributeError", None)
    ELSE IF ex.type = "IndexError"
    THEN IF ex.value = PyInt(1)
         THEN Raise(Out(x0, "printf", "Insufficient number of arguments.", <<>>),
                    "AttributeError", None)
         ELSE except_hook(x0, ex.type, ex.value)
    ELSE IF ex.type = "GetoptError" THEN Out(x0, "print", "option", ex.value)
    ELSE IF ex.type # "None" THEN except_hook(x0, ex.type, ex.value)
    ELSE IF x.rv # None
    THEN [x EXCEPT !.environ[e] = setitem(setitem(@, n_status, x.rv), n_last, x.rv)]
    ELSE x

\* a variant whose first clause is a bare except
outcome_catch_all(x, ctl) ==
    LET x0 == [x EXCEPT !.exc = NoExc, !.rv = None] IN
    IF x.exc.type # "None" THEN except_hook(x0, x.exc.type, x.exc.value)
    ELSE IF x.rv # None
    THEN [x EXCEPT !.environ[EnvOf[ctl]] =
              setitem(setitem(@, n_status,
                              IF CanInt(x.rv) THEN PyInt(int(x.rv)) ELSE PyInt(0)),
                      n_last, x.rv)]
    ELSE x

\* the except / else clauses of call, applied to what the handler left
outcome(x, ctl) ==
    LET e  == EnvOf[ctl]
        ex == x.exc
        x0 == [x EXCEPT !.exc = NoExc, !.rv = None]
    IN
    IF ex.type \in FlowSignals THEN x
    ELSE IF ex.type = "CLISyntaxError"
    THEN Raise(Out(x0, "printf", "Syntax error", ex.value), "AttributeError", None)
    ELSE IF ex.type = "IndexError"
    THEN IF ex.value = PyInt(1)
         THEN Raise(Out(x0, "printf", "Insufficient number of arguments.", <<>>),
                    "AttributeError", None)
         ELSE except_hook(x0, ex.type, ex.value)
    ELSE IF ex.type = "GetoptError" THEN Out(x0, "print", "option", ex.value)
    ELSE IF ex.type # "None" THEN except_hook(x0, ex.type, ex.value)
    ELSE IF x.rv # None
    THEN [x EXCEPT !.environ[e] =
              setitem(setitem(@, n_status,
                              IF CanInt(x.rv) THEN PyInt(int(x.rv)) ELSE PyInt(0)),
                      n_last, x.rv)]
    ELSE x

\* a variant that lets a name starting with `_` through
call_private_allowed(x, ctl, argv) ==
    IF argv = <<>> \/ argv[1] = <<>>
    THEN Logged([x EXCEPT !.rv = PyInt(2)], ctl, argv, None, <<>>, NoExc)
    ELSE
    Then(_expand_aliases(x.aliases[ctl], argv), LAMBDA av1 :
    LET name == IF av1[1] \in Members(ctl) THEN av1[1] ELSE w_default IN
    Then(invoke([x EXCEPT !.rv = None], ctl, name, av1), LAMBDA h :
    Then(outcome(h, ctl), LAMBDA o : Logged(o, ctl, argv, name, av1, h.exc))))

\* CommandController.call
call(x, ctl, argv) ==
    IF argv = <<>> \/ argv[1] = <<>> \/ startswith(argv[1], "_")
    THEN Logged([x EXCEPT !.rv = PyInt(2)], ctl, argv, None, <<>>, NoExc)
    ELSE
    Then(_expand_aliases(x.aliases[ctl], argv), LAMBDA av1 :
    LET av2 == IF startswith(av1[1], "!") THEN <<w_pipe, Tail(av1[1])>> \o Tail(av1)
               ELSE IF startswith(av1[1], "%") THEN <<w_spawn, Tail(av1[1])>> \o Tail(av1)
               ELSE av1
    IN
    IF ~startswith(av1[1], "!") /\ ~startswith(av1[1], "%") /\ startswith(av1[1], "#")
    THEN Logged([x EXCEPT !.rv = PyInt(0)], ctl, argv, None, <<>>, NoExc)
    ELSE
    LET name == IF av2[1] \in Members(ctl) THEN av2[1] ELSE w_default IN
    Then(invoke([x EXCEPT !.rv = None], ctl, name, av2), LAMBDA h :
    Then(outcome(h, ctl), LAMBDA o : Logged(o, ctl, argv, name, av2, h.exc))))

----------------------------------------------------------------------------
(* elicit/cli.py: CommandParser *)

\* _get_command_list: the documented public methods, sorted by name
CommandList(ctl) ==
    SelectSeq(<<w_alias, w_boom, w_deep, w_echo, w_exit, w_intr, w_leave, w_opt,
                w_printf, w_setenv, w_sub, w_unalias, w_unset, w_usage>>,
              LAMBDA name : name \in Members(ctl))

LastQuit == <<"last command object quit.">>

\* CommandController.handle_subcommand: a hook; its calls are recorded
handle_subcommand(x, ctl, value) ==
    [x EXCEPT !.subs = Append(@, [ctl |-> ctl, value |-> value])]

push_command(x, newcontroller) ==
    LET e   == EnvOf[newcontroller]
        env == IF n_SHLVL \in DOMAIN x.environ[e] THEN x.environ[e]
               ELSE setitem(x.environ[e], n_SHLVL, PyInt(0))
        cmdlist == CommandList(newcontroller)
    IN
    IF ~CanInt(env[n_SHLVL])
    THEN Raise([x EXCEPT !.environ[e] = env], "ValueError", env[n_SHLVL])
    ELSE [x EXCEPT !.environ[e] = setitem(env, n_SHLVL, PyInt(int(env[n_SHLVL]) + 1)),
                   !.cmds = Append(@, newcontroller),
                   !.controller = newcontroller,
                   !.scopes[newcontroller] =
                       [n \in DOMAIN @ \cup {"commands", "help"} |->
                           IF n \in {"commands", "help"} THEN cmdlist ELSE @[n]]]

\* a variant that reports to the parent whatever the value is
pop_command_always_reports(x, returnval) ==
    IF x.cmds = <<>> THEN Raise(x, "IndexError", None)
    ELSE LET x1 == [x EXCEPT !.cmds = Front(@)] IN
         IF x1.cmds # <<>>
         THEN LET x2 == [x1 EXCEPT !.controller = Last(x1.cmds)] IN
              handle_subcommand(x2, x2.controller, returnval)
         ELSE Raise(x1, "CommandQuit", LastQuit)

\* a variant that leaves the popped controller current
pop_command_keeps_controller(x, returnval) ==
    IF x.cmds = <<>> THEN Raise(x, "IndexError", None)
    ELSE LET x1 == [x EXCEPT !.cmds = Front(@)] IN
         IF x1.cmds # <<>>
         THEN IF returnval # None THEN handle_subcommand(x1, Last(x1.cmds), returnval)
              ELSE x1
         ELSE Raise(x1, "CommandQuit", LastQuit)

pop_command(x, returnval) ==
    IF x.cmds = <<>> THEN Raise(x, "IndexError", None)
    ELSE LET x1 == [x EXCEPT !.cmds = Front(@)] IN
         IF x1.cmds # <<>>
         THEN LET x2 == [x1 EXCEPT !.controller = Last(x1.cmds)] IN
              IF returnval # None THEN handle_subcommand(x2, x2.controller, returnval)
              ELSE x2
         ELSE Raise(x1, "CommandQuit", LastQuit)

\* s += c for a str s: a TypeError unless c is a str too
concat(x, field, c) ==
    IF c = None THEN Raise(x, "TypeError", None)
    ELSE IF field = "arg" THEN [x EXCEPT !.arg = Append(@, c)]
    ELSE [x EXCEPT !.varname = Append(@, c)]

_startvar(x, c) == [x EXCEPT !.varname = <<c>>]

_vartext(x, c) == concat(x, "varname", c)

\* a variant that hands every terminator back, the closing brace included
_endvar_reprocesses_brace(x, c) ==
    LET x1  == [x EXCEPT !.stack = push(@, c)]
        val == expand(x1.environ[EnvOf[x1.controller]], x1.varname)
    IN [x1 EXCEPT !.arg = @ \o str(val)]

\* a variant that ends the word when the value holds a blank
_endvar_splits_value(x, c) ==
    LET x1  == IF c = "}" THEN [x EXCEPT !.varname = Append(@, c)]
               ELSE [x EXCEPT !.stack = push(@, c)]
        val == str(expand(x1.environ[EnvOf[x1.controller]], x1.varname))
    IN IF \E k \in 1..Len(val) : val[k] = " "
       THEN [x1 EXCEPT !.arg_list = Append(@, x1.arg \o val), !.arg = <<>>]
       ELSE [x1 EXCEPT !.arg = @ \o val]

_endvar(x, c) ==
    LET x1  == IF c = "}" THEN [x EXCEPT !.varname = Append(@, c)]
               ELSE [x EXCEPT !.stack = push(@, c)]
        val == expand(x1.environ[EnvOf[x1.controller]], x1.varname)
    IN [x1 EXCEPT !.arg = @ \o str(val)]

_error(x, input_symbol) ==
    [Out(x, "error", "Syntax error", <<input_symbol>>)
        EXCEPT !.stack = <<>>, !.current_state = 0]

\* a variant that leaves out a `$` wherever it is literal text
_addtext_skips_dollar(x, c) == IF c = "$" THEN x ELSE concat(x, "arg", c)

\* a variant that keeps a quoted word on one line
_addtext_one_line(x, c) == IF c = "\n" THEN x ELSE concat(x, "arg", c)

_addtext(x, c) == concat(x, "arg", c)

_wordbreak(x, c) ==
    IF x.arg # <<>> THEN [x EXCEPT !.arg_list = Append(@, x.arg), !.arg = <<>>] ELSE x

\* a variant that appends the escaped character as it is
_slashescape_literal(x, c) == concat(x, "arg", c)

_slashescape(x, c) ==
    concat(x, "arg", IF c \in DOMAIN _SPECIAL THEN _SPECIAL[c] ELSE c)

\* a variant whose closing quote leaves the word open
_singlequote_keeps_word(x, c) == x

_singlequote(x, c) == [x EXCEPT !.arg_list = Append(@, x.arg), !.arg = <<>>]

\* a variant whose closing quote flushes the word as a blank does
_doublequote_as_blank(x, c) ==
    IF x.arg # <<>> THEN [x EXCEPT !.arg_list = Append(@, x.arg), !.arg = <<>>] ELSE x

_doublequote(x, c) == [x EXCEPT !.arg_list = Append(@, x.arg), !.arg = <<>>]

\* a variant that forgets to empty arg_list
_doit_keeps_words(x, c) ==
    Then(_wordbreak(x, c), LAMBDA x1 : call(x1, x1.controller, x1.arg_list))

\* a variant that empties arg_list when call has returned
_doit_clears_after(x, c) ==
    Then(_wordbreak(x, c), LAMBDA x1 :
    Then(call(x1, x1.controller, x1.arg_list), LAMBDA x2 :
         IF Raised(x2) THEN x2 ELSE [x2 EXCEPT !.arg_list = <<>>]))

_doit(x, c) ==
    Then(_wordbreak(x, c), LAMBDA x1 :
         call([x1 EXCEPT !.arg_list = <<>>], x1.controller, x1.arg_list))

action(name, x, c) ==
    CASE name = "_addtext" -> _addtext(x, c)
      [] name = "_wordbreak" -> _wordbreak(x, c)
      [] name = "_doit" -> _doit(x, c)
      [] name = "_slashescape" -> _slashescape(x, c)
      [] name = "_startvar" -> _startvar(x, c)
      [] name = "_vartext" -> _vartext(x, c)
      [] name = "_endvar" -> _endvar(x, c)
      [] name = "_singlequote" -> _singlequote(x, c)
      [] name = "_doublequote" -> _doublequote(x, c)
      [] name = "_error" -> _error(x, c)
      [] name = "None" -> x
      [] OTHER -> Raise(x, name, None)

\* FSM.process of a machine with the transitions of fsm; a next state of
\* None leaves current_state as the action left it
process_on(fsm, x, input_symbol) ==
    Then(get_transition(fsm, input_symbol, x.current_state), LAMBDA tr :
    Then(action(tr[1], x, input_symbol), LAMBDA x1 :
         IF Raised(x1) \/ tr[2] = NoState THEN x1
         ELSE [x1 EXCEPT !.current_state = tr[2]]))

\* FSM.process of the lexer's machine
process(x, input_symbol) == process_on(initialize, x, input_symbol)

\* while self._fsm.stack: self._fsm.process(self._fsm.pop())
RECURSIVE drain(_)
drain(x) ==
    IF Raised(x) \/ x.stack = <<>> THEN x
    ELSE LET p == pop(x.stack) IN
         Then(process([x EXCEPT !.stack = p.stack], p.value), drain)

\* a variant whose CommandQuit clause pops nothing
feed_char_ignores_quit(x, c) ==
    Then(Then(process(x, c), drain), LAMBDA x1 :
    LET x0 == [x1 EXCEPT !.exc = NoExc] IN
    CASE x1.exc.type = "EOFError" -> pop_command(x0, None)
      [] x1.exc.type = "CommandQuit" -> x0
      [] x1.exc.type = "NewCommand" -> push_command(x0, x1.exc.value)
      [] OTHER -> x1)

\* the body of feed's for loop for one character, with its except clauses
feed_char(x, c) ==
    Then(Then(process(x, c), drain), LAMBDA x1 :
    LET x0 == [x1 EXCEPT !.exc = NoExc] IN
    CASE x1.exc.type = "EOFError" -> pop_command(x0, None)
      [] x1.exc.type = "CommandQuit" -> pop_command(x0, x1.exc.value)
      [] x1.exc.type = "NewCommand" -> push_command(x0, x1.exc.value)
      [] OTHER -> x1)

\* feed's for loop: i characters of text are consumed
RECURSIVE feed_loop(_, _, _)
feed_loop(x, text, i) ==
    IF i = Len(text) \/ Raised(x) THEN [x |-> x, i |-> i]
    ELSE Then(feed_char(x, text[i + 1]), LAMBDA x1 : feed_loop(x1, text, i + 1))

\* a variant whose index stops on the last character, not after it
feed_keeps_tail(x, text0) ==
    LET text == x.buf \o text0 IN
    Then(feed_loop(x, text, 0), LAMBDA r :
         IF Raised(r.x) THEN r.x
         ELSE IF r.x.current_state # 0
         THEN [r.x EXCEPT !.buf = SubSeq(text, r.i, Len(text))]
         ELSE r.x)

\* CommandParser.feed; an exception that leaves the loop skips the rest
feed(x, text0) ==
    LET text == x.buf \o text0 IN
    Then(feed_loop(x, text, 0), LAMBDA r :
         IF Raised(r.x) THEN r.x
         ELSE IF r.x.current_state # 0
         THEN [r.x EXCEPT !.buf = SubSeq(text, r.i + 1, Len(text))]
         ELSE r.x)

\* CommandParser.__init__ / reset, before any controller is pushed
Blank == [current_state |-> 0, stack |-> <<>>, arg |-> <<>>, varname |-> <<>>,
          arg_list |-> <<>>, buf |-> <<>>, cmds |-> <<>>, controller |-> None,
          environ |-> [e \in Environs |-> Environ0],
          aliases |-> [c \in Controllers |-> <<>>],
          scopes |-> [c \in Controllers |-> <<>>],
          calls |-> <<>>, out |-> <<>>, subs |-> <<>>,
          rv |-> None, exc |-> NoExc]

\* CommandParser(controller): reset pushes the outermost context
NewParser(aliases) == push_command([Blank EXCEPT !.aliases = aliases], "A")

----------------------------------------------------------------------------
(* Input *)

MaxToks == 4

nl == "\n"

RECURSIVE Flatten(_)
Flatten(toks) == IF toks = <<>> THEN <<>> ELSE Head(toks) \o Flatten(Tail(toks))

\* the alphabets the generated input is written in, one for each driver mode
Alphabet(m) ==
    CASE m = "quotes"   -> {<<"a">>, <<" ">>, <<"'">>, <<"\"">>, <<";">>, <<nl>>}
      [] m = "vars"     -> {<<"a">>, <<"$">>, <<"{">>, <<"}">>, <<"H">>, <<nl>>}
      [] m = "escapes"  -> {<<"a">>, <<"n">>, <<"\\">>, <<"\"">>, <<" ">>, <<nl>>}
      [] m = "commands" -> {w_exit, w_sub, w_echo, <<";">>, <<nl>>}

Families == {"quotes", "vars", "escapes", "commands"}

\* whole texts that are fed in pieces cut anywhere
Scripts == {
    <<"e", " ", "'", "a", " ", "b", "'", " ", "c", nl>>,
    <<"$", "H", "/", "b", nl>>,
    <<"e", " ", "a", ";", " ", "e", " ", "b", nl>>,
    <<"e", " ", "\"", "o", nl, "q", "\"", nl>>,
    \* backslash escapes, bare and inside double quotes
    <<"a", "\\", "n", "b", nl>>,
    <<"a", "\\", "z", "b", nl>>,
    <<"\"", "a", "\\", "n", "b", "\"", nl>>,
    <<"\\", "r", "\\", "t", "\\", "b", "\\", "'", "\\", "$", "\\", ";", "\\", " ",
      "\\", "\"", "\\", "\\", "\\", nl, nl>>,
    <<"\"", "\\", "t", "\\", "$", "\\", "'", "\\", ";", "\\", "\"", "\\", nl, "\"", nl>>,
    \* single quotes
    <<"'", "$", "H", "'", nl>>,
    <<"'", "'", " ", "\"", "\"", nl>>,
    <<"e", " ", " ", "$", "{", "N", "}", " ", "\t", nl>>,
    <<"'", "$", "{", "H", "}", "\\", "n", ";", "\"", nl, " ", "\t", "'", nl>>,
    \* variable references, braced and not, set and not
    <<"$", "{", "H", "}", "a", nl>>,
    <<"\"", "$", "{", "H", "}", "a", "\"", nl>>,
    <<"\"", "$", "{", "H", "}", " ", ";", "\\", "n", "\t", nl, "\"", nl>>,
    <<"a", "$", "{", "N", "}", "b", nl>>,
    \* a value made of the characters the lexer treats specially
    (w_setenv \o <<" ", "H", " ", "'", ";", " ", "\"", "$", "H", "\\", "'", nl>>)
        \o <<"e", " ", "$", "{", "H", "}", " ", "\"", "$", "{", "H", "}", "\"", nl>>,
    <<"a", "$", "N", "b", nl>>,
    <<"\"", "$", "H", " ", "a", "\"", nl>>,
    \* single quotes inside double quotes
    <<"\"", "a", " ", "'", "b", "'", " ", "c", "\"", nl>>,
    \* statements that push and pop contexts, and one that is interrupted
    w_sub \o <<";">> \o w_echo \o <<";">> \o w_exit \o <<";">> \o w_echo \o <<";">>
        \o w_exit \o <<";">> \o w_echo \o <<nl>>,
    <<"e", " ", "a", ";">> \o w_intr \o <<";", "e", " ", "b", nl>> }

NoRet == 0 - 1

NoAliases == [c \in Controllers |-> <<>>]

IdleLoop == [argv |-> <<>>, seen |-> {}, done |-> TRUE]

----------------------------------------------------------------------------
(* The lexer driven by a source of text: parseFile's loop of feed calls *)

InitFeed ==
    /\ mode \in {"script"} \cup Families
    /\ todo \in IF mode = "script" THEN Scripts ELSE {<<>>}
    /\ fed = <<>>
    /\ w = NewParser(NoAliases)
    /\ ret = NoRet
    /\ loop = IdleLoop
    /\ budget = IF mode = "script" THEN 0 ELSE MaxToks
    /\ split = FALSE

Fed(chunk) ==
    /\ ~Raised(w)
    /\ split' = (fed # <<>>)
    /\ w' = feed(w, chunk)
    /\ fed' = fed \o chunk
    /\ ret' = IF Raised(w') THEN NoRet ELSE w'.current_state
    /\ UNCHANGED <<mode, loop>>

\* the next piece of a script, cut anywhere
FeedScript ==
    /\ mode = "script"
    /\ \E n \in 1..Len(todo) :
          /\ Fed(SubSeq(todo, 1, n))
          /\ todo' = SubSeq(todo, n + 1, Len(todo))
          /\ UNCHANGED budget

\* a piece of generated text
FeedText ==
    /\ mode \in Families
    /\ \E k \in 1..budget : \E ts \in [1..k -> Alphabet(mode)] :
          /\ Fed(Flatten(ts))
          /\ budget' = budget - k
          /\ UNCHANGED todo

NextFeed == FeedScript \/ FeedText

SpecFeed == InitFeed /\ [][NextFeed]_vars

----------------------------------------------------------------------------
(* The controller called directly: CommandController.call and the loop of  *)
(* _expand_aliases, one pass at a time                                     *)

MaxAlias == 2

MaxArgv == 2

MaxCalls == 2

\* the words aliases are made of: two alias names and an option
AliasWords == {w_ls, w_ll, w_l}

SeqsUpTo(S, n) == UNION {[1..k -> S] : k \in 1..n}

\* every alias table over the two names, each bound to 1..MaxAlias words or not
\* bound at all
AliasTables ==
    LET reps == SeqsUpTo(AliasWords, MaxAlias) IN
    {<<>>} \cup {(w_ls :> r) : r \in reps} \cup {(w_ll :> r) : r \in reps}
           \cup {(w_ls :> r) @@ (w_ll :> q) : r \in reps, q \in reps}

AliasArgvs == SeqsUpTo(AliasWords, MaxArgv) \cup {<<w_ll, w_a, w_extra>>}

\* a statement for each way a handler can end, and the statements call ignores
HandlerArgvs ==
    {<<n>> : n \in {w_exit, w_sub, w_leave, w_intr, w_usage, w_deep, w_opt, w_boom,
                    w_echo, w_printf, w_unset, w_ls, w_setup, <<>>,
                    <<"!", "l", "s">>, <<"%", "l", "s">>, <<"#", "l", "s">>}}
    \cup {<<>>, <<w_setenv, n_last, <<"1", "2">>>>, <<w_setenv, n_last, <<"x">>>>,
          <<w_unset, n_last>>}

HandlerTables == {<<>>, (w_ls :> <<w_setup>>), (w_ls :> <<<<"!", "l", "l">>, w_l>>)}

Session(table) == NewParser([c \in Controllers |-> IF c = "A" THEN table ELSE <<>>])

\* the alias command in each spelling, with and without a value, unalias,
\* and a statement that uses the alias
EditArgvs ==
    {<<w_alias>>, <<w_alias, w_ls>>, <<w_unalias>>, <<w_unalias, w_ls>>, <<w_ls>>,
     <<w_alias, (w_ls \o <<"=">>) \o w_ll>>, <<w_alias, w_ls, <<"=">> \o w_ll>>,
     <<w_alias, w_ls, <<"=">>, w_ll>>, <<w_alias, w_ls, w_ll>>,
     <<w_alias, (w_ls \o <<"=">>) \o w_ll, w_l>>,
     <<w_alias, w_ls \o <<"=">>>>, <<w_alias, w_ls, <<"=">>>>}

InitCall ==
    /\ mode \in {"alias", "handlers", "edit"}
    /\ \E t \in CASE mode = "handlers" -> HandlerTables
                  [] mode = "alias" -> AliasTables
                  [] OTHER -> {<<>>} : w = Session(t)
    /\ todo = <<>> /\ fed = <<>> /\ ret = NoRet /\ loop = IdleLoop
    /\ budget = 0 /\ split = FALSE

\* the current context's call, given a statement; what it raises goes to the
\* caller, so the next call starts with no exception pending
Called(argv) ==
    /\ w' = call([w EXCEPT !.exc = NoExc], w.controller, argv)
    /\ UNCHANGED <<todo, fed, ret, mode, loop, budget, split>>

CallAlias ==
    /\ mode = "alias" /\ w.calls = <<>>
    /\ \E argv \in AliasArgvs : Called(argv)

CallHandler ==
    /\ mode = "handlers" /\ Len(w.calls) < MaxCalls
    /\ \E argv \in HandlerArgvs : Called(argv)

CallEdit ==
    /\ mode = "edit" /\ Len(w.calls) <= MaxCalls
    /\ \E argv \in EditArgvs : Called(argv)

NextCall == CallAlias \/ CallHandler \/ CallEdit

SpecCall == InitCall /\ [][NextCall]_vars

InitExpand ==
    /\ mode = "expand"
    /\ \E t \in AliasTables : w = Session(t)
    /\ todo = <<>> /\ fed = <<>> /\ ret = NoRet /\ loop = IdleLoop
    /\ budget = 0 /\ split = FALSE

\* _expand_aliases is entered
ExpandStart ==
    /\ loop = IdleLoop
    /\ \E argv \in AliasArgvs : loop' = [argv |-> argv, seen |-> {}, done |-> FALSE]
    /\ UNCHANGED <<w, todo, fed, ret, mode, budget, split>>

\* one pass of its loop; a pass lengthens argv by less than MaxAlias. fed
\* keeps the names of the aliases substituted so far, in order
ExpandIter ==
    /\ ~loop.done
    /\ Len(loop.argv) <= (MaxArgv + 1) + 2 * MaxAlias
    /\ loop' = expand_iter(w.aliases[w.controller], loop)
    /\ fed' = IF loop'.done THEN fed ELSE Append(fed, loop.argv[1])
    /\ UNCHANGED <<w, todo, ret, mode, budget, split>>

NextExpand == ExpandStart \/ ExpandIter

\* a running loop is not suspended: the interpreter is single-threaded
SpecExpand == InitExpand /\ [][NextExpand]_vars /\ WF_vars(ExpandIter)

----------------------------------------------------------------------------
(* The context stack: push_command and pop_command called directly, and    *)
(* interact's read loop, one prompt at a time                              *)

MaxEvents == 5

\* what the user types at the primary prompt (an empty line included) and at
\* the continuation prompt
Lines == {<<>>, w_sub, w_exit, w_leave, w_intr, <<"e">>, <<"\"", "o">>,
          w_boom, w_opt, w_deep, w_usage, w_printf, <<"$", "H">>}

MoreLines == {<<"q">>, <<"q", "\"">>}

\* the statements feed may dispatch between pushes and pops
MaxFeeds == 2

\* the values handed to pop_command
ReturnVals == {None, w_exit, PyInt(0)}

\* UserInterface.clone: the new user interface owns a copy of the Environ
clone(x, ctl) == [x EXCEPT !.environ[EnvOf[ctl]] = x.environ["e1"]]

InitStack ==
    /\ mode \in {"stack", "prompt"}
    /\ w = NewParser(NoAliases)
    /\ todo = <<>> /\ fed = <<>> /\ ret = NoRet /\ loop = IdleLoop
    /\ budget = MaxEvents /\ split = FALSE

Event == budget > 0 /\ budget' = budget - 1 /\ UNCHANGED <<todo, ret, loop, split>>

\* push_command(c) for a controller that is not on the stack: the outermost
\* one, one built on its user interface, or one built on a clone of it made
\* earlier or just now
Push ==
    /\ mode = "stack" /\ Event
    /\ \E c \in Controllers, fresh \in BOOLEAN :
          /\ \A k \in 1..Len(w.cmds) : w.cmds[k] # c
          /\ fresh => c = "C"
          /\ LET x == [w EXCEPT !.exc = NoExc] IN
             w' = push_command(IF fresh THEN clone(x, c) ELSE x, c)
          /\ fed' = Append(fed, <<"push", c>>)
    /\ UNCHANGED mode

Pop ==
    /\ mode = "stack" /\ Event
    /\ w.cmds # <<>>
    /\ \E v \in ReturnVals :
          /\ w' = pop_command([w EXCEPT !.exc = NoExc], v)
          /\ fed' = Append(fed, <<"pop", v>>)
    /\ UNCHANGED mode

\* lines handed to feed between pushes and pops: a statement that stays in
\* the context, one that leaves it, and one that enters a sub-context and
\* goes on there
StackLines == {<<"e">>, w_exit, (w_sub \o <<";">>) \o <<"e">>}

\* feed(line) called by the owner of the parser, as parseFile does
Feed ==
    /\ mode = "stack" /\ Event
    /\ Len(w.calls) < MaxFeeds
    /\ \E line \in StackLines :
          /\ w' = feed([w EXCEPT !.exc = NoExc], line \o <<nl>>)
          /\ fed' = Append(fed, <<"feed", line>>)
    /\ UNCHANGED mode

\* where interact is after a pass of its loop that left x: CommandQuit and
\* CommandExit end the loop, any other exception leaves interact
Landed(x, more) ==
    /\ w' = x
    /\ mode' = IF x.exc.type \in {"CommandQuit", "CommandExit"} THEN "returned"
               ELSE IF Raised(x) THEN "escaped"
               ELSE IF more THEN "more" ELSE "prompt"

\* line = ui.user_input(); an empty line is skipped
UserInput ==
    /\ mode = "prompt" /\ Event
    /\ \E line \in Lines :
          /\ \E x \in {IF line = <<>> THEN w ELSE feed(w, line \o <<nl>>)} :
                Landed(x, x.current_state # 0)
          /\ fed' = Append(fed, <<"line", line>>)

\* line = ui.more_user_input()
MoreUserInput ==
    /\ mode = "more" /\ Event
    /\ \E line \in MoreLines :
          /\ \E x \in {feed(w, line \o <<nl>>)} : Landed(x, x.current_state # 0)
          /\ fed' = Append(fed, <<"more", line>>)

\* either prompt raises EOFError: except EOFError prints a newline and pops
EndOfInput ==
    /\ mode \in {"prompt", "more"} /\ Event
    /\ \E x \in {pop_command(Out(w, "print", "", <<>>), None)} : Landed(x, FALSE)
    /\ fed' = Append(fed, <<"eof", mode>>)

NextStack == Push \/ Pop \/ Feed \/ UserInput \/ MoreUserInput \/ EndOfInput

SpecStack == InitStack /\ [][NextStack]_vars

----------------------------------------------------------------------------
(* The environment used directly: Environ.export, Environ.set and           *)
(* Environ.expand on an Environ of its own                                  *)

MaxOps == 3

\* Environ(): empty, the one tests/test_env.py builds, and one that holds
\* values with a `$` in them, an int and None
Environs0 ==
    { <<>>,
      (<<"H">> :> <<"/", "u">>) @@ (<<"K">> :> <<"/", "o">>),
      (<<"X">> :> <<"$", "Y">>) @@ (<<"Y">> :> <<"y", "y">>) @@ (n_status :> PyInt(0))
        @@ (<<"D">> :> <<"$">>) @@ (<<"N">> :> None) @@ (<<"I">> :> PyInt(12)) }

ExportTexts ==
    { <<"H", "=", "/", "u">>, <<"K", "=", "/", "o">>, <<"P", "=", "$", "H", "/", "b">>,
      <<"P", "=", "$", "P", ":", "$", "{", "K", "}", "/", "b">>, <<"H", "=", "/", "x">>,
      <<"A", "=", "b", "=", "c", "$", "H">>, <<"D", "=", "$">>, <<"n", "o", "e", "q">> }

SetArgs == { <<<<"Z">>, PyInt(5)>>, <<<<"Y">>, <<"$", "I", "-", "$", "X">>>>, <<<<"N">>, None>> }

ExpandTexts ==
    { <<"$", "X">>, <<"$", "D", "{", "Y", "}">>, <<"$", "{", "D", "}", "Y">>, <<"$", "?">>, <<"$", "N", "O", "P", "E", ".">>,
      <<"a", "$", "{", "Y", "}", "$", "{", "Y", "}", "b">>, <<"$", "I", "$", "?">>, <<"$", "P">>, <<"$", "{", "X">>,
      <<"$">>, <<"$", "X", "$", "Y", "}">>, <<"$", "{", "N", "}", "$", "N", ".">> }

InitEnv ==
    /\ mode = "env"
    /\ \E e \in Environs0 :
          w = [env |-> e, exc |-> NoExc, op |-> "Environ", text |-> <<>>, result |-> <<>>]
    /\ todo = <<>> /\ fed = <<>> /\ ret = NoRet /\ loop = IdleLoop
    /\ budget = MaxOps /\ split = FALSE

EnvOp ==
    /\ mode = "env" /\ budget > 0 /\ ~Raised(w)
    /\ budget' = budget - 1
    /\ UNCHANGED <<todo, fed, ret, mode, loop, split>>

Export ==
    /\ EnvOp
    /\ \E nameval \in ExportTexts : \E r \in {export(w.env, nameval)} :
          w' = [env |-> r.env, exc |-> r.exc, op |-> "export", text |-> nameval,
                result |-> <<>>]

Set ==
    /\ EnvOp
    /\ \E a \in SetArgs :
          w' = [env |-> set(w.env, a[1], a[2]), exc |-> NoExc, op |-> "set",
                text |-> a[1], result |-> <<>>]

Expand ==
    /\ EnvOp
    /\ \E text \in ExpandTexts :
          w' = [w EXCEPT !.op = "expand", !.text = text, !.result = expand(w.env, text)]

NextEnv == Export \/ Set \/ Expand

SpecEnv == InitEnv /\ [][NextEnv]_vars

----------------------------------------------------------------------------
(* The generic FSM used directly: a machine with a few transitions, wired   *)
(* to actions of the lexer, processing symbols one at a time                *)

MaxSyms == 4

FsmSyms == {"a", " ", "!"}

\* three sets of add_transition calls: one whose state 1 has no ANY entry,
\* one that registers _error as an action with a next state of its own, and
\* none at all
FsmRegistrations == {
    << [syms |-> <<ANY>>, state |-> 0, action |-> "_addtext", next |-> 0],
       [syms |-> <<" ">>, state |-> 0, action |-> "_wordbreak", next |-> 0],
       [syms |-> <<"!">>, state |-> 0, action |-> "None", next |-> 1],
       [syms |-> <<"a">>, state |-> 1, action |-> "_addtext", next |-> NoState] >>,
    << [syms |-> <<"a">>, state |-> 0, action |-> "_addtext", next |-> NoState],
       [syms |-> <<" ">>, state |-> 0, action |-> "_wordbreak", next |-> 0],
       [syms |-> <<"!">>, state |-> 0, action |-> "_error", next |-> 1],
       [syms |-> <<ANY>>, state |-> 1, action |-> "_error", next |-> NoState] >>,
    <<>> }

\* FSM(0), add_default_transition and the add_transition calls
NewFSM(regs, default) ==
    [transitions |-> add_transitions(regs), default_transition |-> default,
     current_state |-> 0, stack |-> <<>>, arg |-> <<>>, arg_list |-> <<>>,
     out |-> <<>>, exc |-> NoExc]

InitFSM ==
    /\ mode = "fsm"
    /\ \E regs \in FsmRegistrations, default \in {<<"_error", 0>>, NoDefault} :
          w = NewFSM(regs, default)
    /\ todo = <<>> /\ fed = <<>> /\ ret = NoRet /\ loop = IdleLoop
    /\ budget = MaxSyms /\ split = FALSE

\* fsm.process(sym)
Process ==
    /\ mode = "fsm" /\ budget > 0 /\ ~Raised(w)
    /\ \E sym \in FsmSyms :
          /\ w' = process_on(w, w, sym)
          /\ fed' = Append(fed, sym)
    /\ budget' = budget - 1
    /\ UNCHANGED <<todo, ret, mode, loop, split>>

NextFSM == Process

SpecFSM == InitFSM /\ [][NextFSM]_vars

----------------------------------------------------------------------------
(* Claims about the lexer *)

\* the words a statement holds that feed has read but not dispatched
Pending(x) == x.arg_list \o (IF x.arg # <<>> THEN <<x.arg>> ELSE <<>>)

\* the argument vectors dispatched so far, in order
Dispatched(x) == [k \in 1..Len(x.calls) |-> x.calls[k].argv]

\* the text the step being taken feeds
Chunk == SubSeq(fed', Len(fed) + 1, Len(fed'))

IsPrefix(s, t) == Len(s) <= Len(t) /\ SubSeq(t, 1, Len(s)) = s

\* the POSIX shell's word split of a line of ordinary characters, blanks and
\* quoted sections: quotes are removed, blanks split words outside quotes only
RECURSIVE ShellWords(_, _, _, _)
ShellWords(rest, quote, cur, started) ==
    IF rest = <<>> THEN (IF started THEN <<cur>> ELSE <<>>)
    ELSE LET c == Head(rest) IN
         IF quote # ""
         THEN IF c = quote THEN ShellWords(Tail(rest), "", cur, TRUE)
              ELSE ShellWords(Tail(rest), quote, Append(cur, c), TRUE)
         ELSE IF c = "'" \/ c = "\"" THEN ShellWords(Tail(rest), c, cur, TRUE)
         ELSE IF c = " " \/ c = "\t"
         THEN (IF started THEN <<cur>> ELSE <<>>) \o ShellWords(Tail(rest), "", <<>>, FALSE)
         ELSE ShellWords(Tail(rest), "", Append(cur, c), TRUE)

RECURSIVE OpenQuote(_, _)
OpenQuote(rest, quote) ==
    IF rest = <<>> THEN quote
    ELSE IF quote # "" THEN OpenQuote(Tail(rest), IF Head(rest) = quote THEN "" ELSE quote)
    ELSE OpenQuote(Tail(rest), IF Head(rest) \in {"'", "\""} THEN Head(rest) ELSE "")

\* a line of ordinary characters, blanks and balanced quoted sections
QuotedLine(text) ==
    /\ text # <<>> /\ Last(text) = nl
    /\ \A k \in 1..(Len(text) - 1) : text[k] \notin {nl, ";", "$", "\\"}
    /\ OpenQuote(Front(text), "") = ""

\* C1: a line of ordinary characters, blanks and balanced quoted sections is
\* dispatched as one statement whose words are the shell's word split of the
\* line, quotes removed; quoted and unquoted pieces that touch are one word.
C1_ShellWordSplit ==
    (mode \in {"quotes", "script"} /\ QuotedLine(fed))
        => Dispatched(w) = <<ShellWords(Front(fed), "", <<>>, FALSE)>>

\* C2: the character that ends an unbraced $NAME is reprocessed, as itself, in
\* the state that asked for the variable: with H = /u, `$H/b` and a newline
\* dispatch the one word /u/b, and `$H` and a newline dispatch the word /u.
C2_VarTerminatorReprocessed ==
    /\ fed = <<"$", "H", "/", "b", nl>> => Dispatched(w) = << <<<<"/", "u", "/", "b">>>> >>
    /\ fed = <<"$", "H", nl>> => Dispatched(w) = << <<<<"/", "u">>>> >>

\* C3: a `;` or newline read in Bare state dispatches, at once and to the
\* current context, the words read since the previous terminator as one
\* statement and leaves nothing pending; no other character dispatches; the
\* dispatch log only grows, so statements are dispatched in input order:
\* `e a; e b` and a newline dispatch [e, a] and then [e, b].
C3_Step ==
    (Len(fed') = Len(fed) + 1 /\ ~Raised(w))
        => IF w.current_state = 0 /\ Chunk[1] \in {";", nl}
           THEN /\ Len(w'.calls) = Len(w.calls) + 1
                /\ Last(w'.calls).argv = Pending(w)
                /\ Last(w'.calls).ctl = w.controller
                /\ Pending(w') = <<>>
           ELSE w'.calls = w.calls

C3_TerminatorDispatches ==
    /\ [][C3_Step /\ IsPrefix(w.calls, w'.calls)]_vars
    /\ [](fed = <<"e", " ", "a", ";", " ", "e", " ", "b", nl>>
            => Dispatched(w) = << <<<<"e">>, <<"a">>>>, <<<<"e">>, <<"b">>>> >>)

C3_Witness ==
    /\ fed = <<"e", " ", "a", ";", " ", "e", " ", "b", nl>>
    /\ Len(w.calls) = 2 /\ split

\* text that is literal inside double quotes
PlainQuoted(text) == \A k \in 1..Len(text) : text[k] \notin {"\"", "'", "\\", "$"}

\* C4: a feed that opens a double quote and ends inside it returns a non-zero
\* state and dispatches nothing of the open statement: the completed words
\* and the partial quoted word are kept, also over further feeds of quoted
\* text; a feed that closes the quote and ends the line dispatches one
\* statement, the kept words and then the quoted text of all the feeds joined
\* (`e "o` + newline, then `q"` + newline dispatches [e, "o\nq"]).
C4_Step ==
    /\ (w.current_state = 0 /\ ~Raised(w) /\ Chunk[1] = "\"" /\ PlainQuoted(Tail(Chunk)))
          => /\ w'.current_state = 3 /\ ret' = 3
             /\ w'.calls = w.calls /\ w'.arg_list = w.arg_list
             /\ w'.arg = w.arg \o Tail(Chunk)
    /\ (w.current_state = 3 /\ ~Raised(w) /\ PlainQuoted(Chunk))
          => /\ w'.current_state = 3 /\ ret' = 3
             /\ w'.calls = w.calls /\ w'.arg_list = w.arg_list
             /\ w'.arg = w.arg \o Chunk
    /\ (/\ w.current_state = 3 /\ ~Raised(w) /\ Len(Chunk) >= 2
        /\ SubSeq(Chunk, Len(Chunk) - 1, Len(Chunk)) = <<"\"", nl>>
        /\ PlainQuoted(SubSeq(Chunk, 1, Len(Chunk) - 2)))
          => /\ Len(w'.calls) = Len(w.calls) + 1
             /\ Last(w'.calls).argv =
                    Append(w.arg_list, w.arg \o SubSeq(Chunk, 1, Len(Chunk) - 2))
             /\ Pending(w') = <<>>
             /\ ~Raised(w') => ret' = 0

C4_OpenQuoteContinues ==
    /\ [][C4_Step]_vars
    /\ []((~Raised(w) /\ w.current_state = 3) => ret # 0)
    /\ [](fed = <<"e", " ", "\"", "o", nl, "q", "\"", nl>>
            => Dispatched(w) = << <<<<"e">>, <<"o", nl, "q">>>> >>)

C4_Witness ==
    /\ fed = <<"e", " ", "\"", "o", nl, "q", "\"", nl>>
    /\ split /\ ret = 0 /\ Len(w.calls) = 1

\* C5: however a text is cut into pieces, feeding the pieces one after another
\* leaves the interpreter - dispatch log, lexer state, pending words - exactly
\* where one feed of the whole text leaves it. An exception that leaves feed
\* ends the feeding in both cases.
C5_ChunksEquivalent == w = feed(NewParser(NoAliases), fed)

C5_Witness ==
    /\ split /\ mode = "vars" /\ ~Raised(w)
    /\ fed = <<"$", "{", "H", "}">>
    /\ w.arg = <<"/", "u">>

----------------------------------------------------------------------------
(* Claims about alias expansion and dispatch *)

IsAlias(table, word) == word \in DOMAIN table /\ table[word] # <<>>

Suffix(s, n) == SubSeq(s, Len(s) - n + 1, Len(s))

\* C6: _expand_aliases terminates for every alias table, self-referring and
\* cyclic ones included; when it returns, argv[0] is not an alias or the
\* replacement of argv[0] starts with a word the loop has recorded (an alias
\* loop); it makes at most one substitution for each alias of the table. With
\* ls = [ls], the statement [ls] reaches the default handler as [ls] and call
\* returns 2.
C6_Returned ==
    (loop.done /\ loop # IdleLoop)
        => LET table == w.aliases[w.controller] IN
           /\ loop.argv # <<>>
           /\ \/ ~IsAlias(table, loop.argv[1])
              \/ table[loop.argv[1]][1] \in loop.seen
           /\ Cardinality(loop.seen) <= Cardinality(DOMAIN table)

C6_LsExample ==
    (IsAlias(w.aliases["A"], w_ls) /\ w.aliases["A"][w_ls] = <<w_ls>>)
        => /\ (loop.done /\ loop.seen = {w_ls}) => loop.argv[1] = w_ls
           /\ LET e == Last(call(w, "A", <<w_ls>>).calls) IN
              /\ e.name = w_default /\ e.hargv = <<w_ls>>
              /\ e.rv = PyInt(2)

C6_ExpansionTerminates ==
    /\ (~loop.done) ~> loop.done
    /\ [](C6_Returned /\ C6_LsExample)

C6_Witness ==
    /\ loop.done
    /\ w.aliases["A"] = (w_ls :> <<w_ll>>) @@ (w_ll :> <<w_ls, w_l>>)
    /\ loop.argv = <<w_ls, w_l>> /\ loop.seen = {w_ll, w_ls}

\* C7: alias expansion rewrites the first position only. The arguments after
\* argv[0] reach the handler unchanged and in order, whatever they are; when
\* argv[0] is an alias its replacement's words come first, in stored order;
\* when it is not, argv is passed as it is; the alias table is not modified.
\* With ll = [ls, -l], [ll, -a, extra] is dispatched as [ls, -l, -a, extra].
C7_Entry(e, table) ==
    /\ Len(e.hargv) >= Len(e.argv)
    /\ Suffix(e.hargv, Len(e.argv) - 1) = Tail(e.argv)
    /\ ~IsAlias(table, e.argv[1]) => e.hargv = e.argv
    /\ IsAlias(table, e.argv[1]) =>
          /\ Suffix(e.hargv, Len(e.argv) - 1 + Len(table[e.argv[1]]) - 1)
                = Tail(table[e.argv[1]]) \o Tail(e.argv)
          /\ ~IsAlias(table, table[e.argv[1]][1]) => e.hargv = table[e.argv[1]] \o Tail(e.argv)
    /\ (table = (w_ll :> <<w_ls, w_l>>) /\ e.argv = <<w_ll, w_a, w_extra>>)
          => e.hargv = <<w_ls, w_l, w_a, w_extra>>

C7_FirstPositionOnly ==
    /\ [](mode = "alias" =>
            \A k \in 1..Len(w.calls) : C7_Entry(w.calls[k], w.aliases[w.calls[k].ctl]))
    /\ [][mode = "alias" => w'.aliases = w.aliases]_vars

C7_Witness ==
    /\ mode = "alias" /\ Len(w.calls) = 1
    /\ w.aliases["A"] = (w_ll :> <<w_ls, w_l>>)
    /\ w.calls[1].argv = <<w_ll, w_a, w_extra>>
    /\ w.calls[1].hargv = <<w_ls, w_l, w_a, w_extra>>

\* C8: when the handler raises NewCommand, CommandQuit, CommandExit or
\* KeyboardInterrupt, call raises that same exception: nothing is written to
\* the user interface, except_hook is not called, `_` and `?` keep their values.
C8_Step ==
    (mode = "handlers" /\ Len(w'.calls) = Len(w.calls) + 1
        /\ Last(w'.calls).hexc.type \in FlowSignals)
    => LET e   == Last(w'.calls)
           env == EnvOf[e.ctl]
       IN /\ e.exc.type = e.hexc.type /\ e.exc.value = e.hexc.value
          /\ w'.exc.type = e.hexc.type /\ w'.exc.value = e.hexc.value
          /\ w'.out = w.out
          /\ w'.environ[env] = w.environ[env]

C8_SignalsPassThrough == [][C8_Step]_vars

C8_Witness ==
    /\ mode = "handlers" /\ Len(w.calls) = 2
    /\ PyInt(2) = w.calls[1].rv
    /\ w.calls[2].hexc.type = "KeyboardInterrupt" /\ w.exc.type = "KeyboardInterrupt"
    /\ PyInt(2) = get(w.environ["e1"], n_status)

----------------------------------------------------------------------------
(* Claims about the context stack *)

Event_(k) == fed'[Len(fed')][k]

Happened(kind) == Len(fed') = Len(fed) + 1 /\ Event_(1) = kind

\* C9: pop_command(v) removes the top context. If a parent remains it becomes
\* the current context, and its handle_subcommand is called once with v when v
\* is not None and not at all when v is None; if none remains, CommandQuit is
\* raised, and in interact that ends the read loop normally. End-of-input at
\* the primary prompt pops one context, so with n contexts stacked the n-th
\* successive end-of-input ends the loop.
C9_PopStep ==
    Happened("pop") =>
        /\ w'.cmds = Front(w.cmds)
        /\ IF Len(w.cmds) > 1
           THEN /\ w'.controller = w.cmds[Len(w.cmds) - 1] /\ ~Raised(w')
                /\ IF Event_(2) = None THEN w'.subs = w.subs
                   ELSE /\ Len(w'.subs) = Len(w.subs) + 1
                        /\ Front(w'.subs) = w.subs
                        /\ Last(w'.subs).ctl = w'.controller
                        /\ Last(w'.subs).value = Event_(2)
           ELSE w'.exc.type = "CommandQuit" /\ w'.subs = w.subs

C9_EofStep ==
    (Happened("eof") /\ mode = "prompt") =>
        /\ w'.cmds = Front(w.cmds) /\ w'.subs = w.subs
        /\ IF Len(w.cmds) > 1
           THEN mode' = "prompt" /\ w'.controller = w.cmds[Len(w.cmds) - 1]
           ELSE mode' = "returned"

\* the events since the last one that was not an end-of-input at the primary prompt
RECURSIVE EofRun(_)
EofRun(log) ==
    IF log = <<>> \/ Last(log) # <<"eof", "prompt">> THEN 0 ELSE 1 + EofRun(Front(log))

C9_PopContext ==
    /\ [][C9_PopStep /\ C9_EofStep]_vars
    /\ [](mode \in {"prompt", "more"} => w.cmds # <<>>)
    /\ []((mode = "returned" /\ EofRun(fed) > 0) => w.cmds = <<>> /\ w.exc.type = "CommandQuit")
    /\ [](\A n \in 1..Len(fed) :
            (EofRun(fed) = n /\ Len(fed) > n /\ Len(fed[Len(fed) - n]) = 3
                /\ fed[Len(fed) - n][3] = n)
            => mode = "returned")

C9_Witness ==
    /\ mode = "returned" /\ EofRun(fed) = 3 /\ w.cmds = <<>>
    /\ Len(w.subs) = 0

C9_WitnessPop ==
    /\ mode = "stack" /\ Len(fed) >= 2 /\ fed[Len(fed)] = <<"pop", PyInt(0)>>
    /\ Len(w.subs) = 1 /\ w.subs[1].ctl = "A" /\ w.controller = "A"

\* C10: push_command(c) appends c to the stack, makes it the current context,
\* registers the scopes `commands` and `help` with c's command list and leaves
\* SHLVL in c's environment equal to the number of contexts on the stack,
\* after any sequence of pushes and pops, for shared and for copied
\* environments.
C10_PushStep ==
    (Len(w'.cmds) = Len(w.cmds) + 1) =>
        LET c == Last(w'.cmds) IN
        /\ Front(w'.cmds) = w.cmds /\ w'.controller = c
        /\ DOMAIN w'.scopes[c] = {"commands", "help"}
        /\ w'.scopes[c]["commands"] = CommandList(c)
        /\ w'.scopes[c]["help"] = CommandList(c)
        /\ PyInt(Len(w'.cmds)) = get(w'.environ[EnvOf[c]], n_SHLVL)

C10_ShellLevelIsDepth == [][C10_PushStep]_vars

----------------------------------------------------------------------------
(* Claims about the read loop and the dispatcher's outcomes *)

\* C11: interact's read loop ends only when the outermost context is popped
\* or a quit signal reaches it, and no exception other than a flow-control
\* signal leaves it: after a syntax error, an expansion failure, an unknown
\* command or any failure of a handler the next line is read.
C11_LoopSurvivesErrors ==
    /\ (mode = "escaped") => (w.exc.type \in FlowSignals)
    /\ (mode = "returned") => (w.cmds = <<>> \/ w.exc.type \in {"CommandQuit", "CommandExit"})

\* the statement call was given in the step being taken, once it is logged
NewEntry == Len(w'.calls) = Len(w.calls) + 1 /\ Front(w'.calls) = w.calls

Ignored(argv) == argv = <<>> \/ argv[1] = <<>> \/ startswith(argv[1], "_")

\* C12: call returns 2 and invokes nothing - no member, not the default
\* handler - when argv is empty, argv[0] is the empty string or argv[0]
\* starts with `_`; it writes nothing and leaves the environment alone.
C12_Step ==
    (mode = "handlers" /\ NewEntry /\ Ignored(Last(w'.calls).argv))
    => LET e == Last(w'.calls) IN
       /\ e.name = None /\ e.hargv = <<>>
       /\ PyInt(2) = e.rv /\ e.exc.type = "None" /\ w'.exc.type = "None"
       /\ w'.out = w.out
       /\ w'.environ = w.environ

C12_IgnoredStatements == [][C12_Step]_vars

C12_Witness ==
    /\ mode = "handlers" /\ Len(w.calls) = 2
    /\ w.calls[1].argv = <<<<>>>> /\ w.calls[1].name = None /\ PyInt(2) = w.calls[1].rv
    /\ w.calls[2].argv = <<w_setup>> /\ w.calls[2].name = None /\ PyInt(2) = w.calls[2].rv
    /\ w.out = <<>>

\* the entry call logs in the step being taken, and the context's variables
\* after it
Entry == Last(w'.calls)

EnvAfter(name) == get(w'.environ[EnvOf[Entry.ctl]], name)

\* the statement after alias expansion, as the step's call saw it
Expanded == _expand_aliases(w.aliases[Entry.ctl], Entry.argv)

Rewritten ==
    IF startswith(Expanded[1], "!") THEN <<w_pipe, Tail(Expanded[1])>> \o Tail(Expanded)
    ELSE IF startswith(Expanded[1], "%") THEN <<w_spawn, Tail(Expanded[1])>> \o Tail(Expanded)
    ELSE Expanded

Unknown == [ch |-> "error", msg |-> "unknown command", arg |-> Entry.hargv[1]]

\* C13: when the first token, after alias expansion and prefix rewriting,
\* names no member of the context, the default handler is invoked with the
\* rewritten argument vector; it reports the unknown name and returns 2,
\* call returns 2, and 2 is the last status (and the last result).
C13_Step ==
    (NewEntry /\ ~Ignored(Entry.argv) /\ ~startswith(Expanded[1], "#")
        /\ Rewritten[1] \notin Members(Entry.ctl))
    => /\ Entry.name = w_default
       /\ Entry.hargv = Rewritten
       /\ Entry.hexc.type = "None" /\ Entry.exc.type = "None"
       /\ w'.out = Append(w.out, Unknown)
       /\ PyInt(2) = Entry.rv
       /\ PyInt(2) = EnvAfter(n_status)
       /\ PyInt(2) = EnvAfter(n_last)

C13_UnknownCommand == [][C13_Step]_vars

C13_Witness ==
    /\ mode = "handlers" /\ w.aliases["A"] = <<>> /\ Len(w.calls) = 1
    /\ w.calls[1].argv = <<w_ls>> /\ w.calls[1].name = w_default
    /\ w.calls[1].hargv = <<w_ls>>
    /\ w.out = <<[ch |-> "error", msg |-> "unknown command", arg |-> w_ls]>>
    /\ PyInt(2) = get(w.environ["e1"], n_status)

\* C14: after alias expansion a first token `!rest` becomes the two tokens
\* pipe, rest and `%rest` becomes spawn, rest, the other arguments following
\* unchanged, and the statement is dispatched to the pipe or spawn handler;
\* a first token starting with `#` makes call return 0 with nothing invoked.
C14_Step ==
    (NewEntry /\ ~Ignored(Entry.argv))
    => /\ startswith(Expanded[1], "!")
          => (Entry.hargv = <<w_pipe, Tail(Expanded[1])>> \o Tail(Expanded)
              /\ Entry.name = w_pipe)
       /\ (~startswith(Expanded[1], "!") /\ startswith(Expanded[1], "%"))
          => (Entry.hargv = <<w_spawn, Tail(Expanded[1])>> \o Tail(Expanded)
              /\ Entry.name = w_spawn)
       /\ startswith(Expanded[1], "#")
          => (Entry.name = None /\ Entry.hargv = <<>> /\ PyInt(0) = Entry.rv
              /\ w'.out = w.out /\ w'.environ = w.environ)

C14_PrefixRewriting == [][C14_Step]_vars

\* what the handler of the step's entry did, on its own
Handled == invoke([w EXCEPT !.exc = NoExc, !.rv = None], Entry.ctl, Entry.name, Entry.hargv)

ReturnedValue == NewEntry /\ Entry.name # None /\ Handled.exc.type = "None" /\ Handled.rv # None

\* C15: when a handler returns a result rv other than None, call stores rv
\* as `_`, stores int(rv) as `?` when rv converts to an integer and 0 when
\* it does not, and returns rv; a `?` the dispatcher wrote is an integer.
C15_Step ==
    /\ ReturnedValue
       => /\ Handled.rv = Entry.rv
          /\ Handled.rv = EnvAfter(n_last)
          /\ IsInt(EnvAfter(n_status))
          /\ IsInt(Handled.rv) => (Handled.rv = EnvAfter(n_status))
          /\ (Handled.rv = <<"1", "2">>) => (PyInt(12) = EnvAfter(n_status))
          /\ (Handled.rv = <<"x">>) => (PyInt(0) = EnvAfter(n_status))
    /\ (NewEntry /\ ~ReturnedValue)
       => EnvAfter(n_status) = get(w.environ[EnvOf[Entry.ctl]], n_status)

C15_StatusIsInt ==
    \A e \in DOMAIN w.environ :
        n_status \in DOMAIN w.environ[e] => IsInt(w.environ[e][n_status])

C16_Step ==
    (NewEntry /\ Entry.hexc.type = "IndexError")
    => /\ Entry.exc.type = "None"
       /\ Len(w'.out) = Len(w.out) + 1
       /\ Last(w'.out).msg = (IF Entry.hexc.value = PyInt(1)
                              THEN "Insufficient number of arguments."
                              ELSE "except_hook")

C16_IndexErrorByDepth == [][C16_Step]_vars

----------------------------------------------------------------------------
(* Claims about the lexer's escape, quote and variable states *)

\* one character is fed to a lexer that is running
OneChar == Len(fed') = Len(fed) + 1 /\ ~Raised(w)

\* nothing is dispatched and no completed word is touched
WordInProgress == w'.calls = w.calls /\ w'.arg_list = w.arg_list /\ ~Raised(w')

Escaped(c) ==
    CASE c = "r" -> "\r" [] c = "n" -> "\n" [] c = "t" -> "\t" [] c = "b" -> BS
      [] OTHER -> c

\* C17: the character after a backslash, bare or inside double quotes, is
\* appended to the word as CR, LF, TAB or BACKSPACE when it is r, n, t or b
\* and as itself otherwise (a backslash, a quote, `$`, `;`, a blank and a
\* newline included), and the lexer returns to the state the backslash was
\* read in: `a\nb` is the word a<LF>b and `a\zb` the word azb.
C17_Step ==
    OneChar =>
       /\ (w.current_state \in {0, 3} /\ Chunk[1] = "\\")
             => /\ w'.current_state = (IF w.current_state = 0 THEN 1 ELSE 6)
                /\ w'.arg = w.arg /\ WordInProgress
       /\ (w.current_state \in {1, 6})
             => /\ w'.current_state = (IF w.current_state = 1 THEN 0 ELSE 3)
                /\ w'.arg = Append(w.arg, Escaped(Chunk[1]))
                /\ WordInProgress

C17_BackslashEscapes ==
    /\ [][C17_Step]_vars
    /\ [](fed = <<"a", "\\", "n", "b", nl>> => Dispatched(w) = << <<<<"a", "\n", "b">>>> >>)
    /\ [](fed = <<"a", "\\", "z", "b", nl>> => Dispatched(w) = << <<<<"a", "z", "b">>>> >>)
    /\ [](fed = <<"\"", "a", "\\", "n", "b", "\"", nl>>
            => Dispatched(w) = << <<<<"a", "\n", "b">>>> >>)

C17_Witness ==
    /\ fed = <<"\\", "r", "\\", "t", "\\", "b", "\\", "'", "\\", "$", "\\", ";", "\\", " ",
               "\\", "\"", "\\", "\\", "\\", nl, nl>>
    /\ split
    /\ Dispatched(w) = << <<<<"\r", "\t", BS, "'", "$", ";", " ", "\"", "\\", nl>>>> >>

NoSingleQuote(text) == \A k \in 1..Len(text) : text[k] # "'"

\* C18: in SingleQuote state every character but the closing quote is
\* appended to the word as it is and the state stays SingleQuote: no escape,
\* no variable, no terminator is recognised and the environment is not
\* read; '$HOME' is the literal word $HOME.
C18_Step ==
    (~Raised(w) /\ w.current_state = 2 /\ Chunk # <<>> /\ NoSingleQuote(Chunk))
    => /\ w'.arg = w.arg \o Chunk
       /\ w'.current_state = 2
       /\ w'.varname = w.varname /\ w'.stack = w.stack
       /\ w'.environ = w.environ /\ w'.out = w.out
       /\ WordInProgress

C18_SingleQuoteLiteral ==
    /\ [][C18_Step]_vars
    /\ [](fed = <<"'", "$", "H", "'", nl>> => Dispatched(w) = << <<<<"$", "H">>>> >>)

C18_Witness ==
    /\ fed = <<"'", "$", "{", "H", "}", "\\", "n", ";", "\"", nl, " ", "\t", "'", nl>>
    /\ split
    /\ Dispatched(w) = << <<<<"$", "{", "H", "}", "\\", "n", ";", "\"", nl, " ", "\t">>>> >>

\* the value of the braced name read so far: nothing when it is not set
BracedValue ==
    LET tv == get(w.environ[EnvOf[w.controller]], SubSeq(w.varname, 3, Len(w.varname)))
    IN IF tv # None THEN str(tv) ELSE <<>>

\* C19: after `${` every character up to the closing brace is added to the
\* name; the closing brace appends the variable's value to the word, is
\* itself consumed, and returns the lexer to the state that asked for the
\* variable, Bare or DoubleQuote: with H = /u, `${H}a` is the word /ua.
C19_Step ==
    (OneChar /\ w.current_state \in {9, 10} /\ SubSeq(w.varname, 1, 2) = <<"$", "{">>) =>
       IF Chunk[1] = "}"
       THEN /\ w'.arg = w.arg \o BracedValue
            /\ w'.current_state = (IF w.current_state = 9 THEN 0 ELSE 3)
            /\ w'.stack = <<>>
            /\ WordInProgress
       ELSE /\ w'.varname = Append(w.varname, Chunk[1])
            /\ w'.current_state = w.current_state
            /\ w'.arg = w.arg
            /\ WordInProgress

C19_BracedVariable ==
    /\ [][C19_Step]_vars
    /\ [](fed = <<"$", "{", "H", "}", "a", nl>> => Dispatched(w) = << <<<<"/", "u", "a">>>> >>)
    /\ [](fed = <<"\"", "$", "{", "H", "}", "a", "\"", nl>>
            => Dispatched(w) = << <<<<"/", "u", "a">>>> >>)

C19_Witness ==
    /\ fed = <<"\"", "$", "{", "H", "}", "a", "\"", nl>>
    /\ split
    /\ Dispatched(w) = << <<<<"/", "u", "a">>>> >>

\* C20: a reference to a variable that is not set appends nothing and is not
\* an error: with N not set, `a$Nb` and a newline dispatch the one word ab,
\* and so do `a${N}b` and a newline.
C20_UndefinedIsEmpty ==
    (fed \in {<<"a", "$", "N", "b", nl>>, <<"a", "$", "{", "N", "}", "b", nl>>})
    => /\ ~Raised(w)
       /\ w.out = <<>>
       /\ Dispatched(w) = << <<<<"a", "b">>>> >>

----------------------------------------------------------------------------
(* Claims about re-tokenizing, the environment and nested quotes *)

\* a word inside double quotes: the four characters that are not literal
\* there are written behind a backslash
RECURSIVE Backslashed(_)
Backslashed(word) ==
    IF word = <<>> THEN <<>>
    ELSE (IF Head(word) \in {"\"", "\\", "$", "'"} THEN <<"\\", Head(word)>> ELSE <<Head(word)>>)
         \o Backslashed(Tail(word))

\* a word quoted for the lexer: in single quotes when it holds none, else in
\* double quotes
Quote(word) ==
    IF NoSingleQuote(word) THEN <<"'">> \o word \o <<"'">>
    ELSE <<"\"">> \o Backslashed(word) \o <<"\"">>

\* the quoted words joined by single spaces, and a newline
Requoted(argv) == join([k \in 1..Len(argv) |-> Quote(argv[k])]) \o <<nl>>

Retokenized(argv) == Dispatched(feed(NewParser(NoAliases), Requoted(argv)))

\* C21: every argument list the lexer dispatches - empty words and words
\* with blanks, `;`, `$`, quotes, newlines or backslashes included - is
\* dispatched again, as the same list, when its words are quoted, joined by
\* single spaces, ended by a newline and fed to a lexer in its initial state.
C21_RoundTrip ==
    \A k \in 1..Len(w.calls) : Retokenized(w.calls[k].argv) = <<w.calls[k].argv>>

C21_Witness ==
    /\ mode = "script"
    /\ Dispatched(w) = << <<<<"\r", "\t", BS, "'", "$", ";", " ", "\"", "\\", nl>>>> >>
    /\ Requoted(w.calls[1].argv)
          = <<"\"", "\r", "\t", BS, "\\", "'", "\\", "$", ";", " ", "\\", "\"", "\\", "\\", nl, "\"", nl>>
    /\ Retokenized(w.calls[1].argv) = Dispatched(w)

\* the end of the run of name characters that starts at position k
RECURSIVE RunEnd(_, _)
RunEnd(text, k) ==
    IF k < Len(text) /\ IsVarChar(text[k + 1]) THEN RunEnd(text, k + 1) ELSE k

\* what a reference to name stands for: nothing when name holds no value
Value(env, name) ==
    LET tv == get(env, name) IN IF tv # None THEN str(tv) ELSE <<>>

\* text read once from left to right, each $NAME and ${NAME} replaced by
\* its value; what is put in is never read
RECURSIVE Scanned(_, _, _)
Scanned(env, text, k) ==
    IF k > Len(text) THEN <<>>
    ELSE IF text[k] = "$" /\ k < Len(text) /\ IsVarChar(text[k + 1])
    THEN Value(env, SubSeq(text, k + 1, RunEnd(text, k + 1)))
            \o Scanned(env, text, RunEnd(text, k + 1) + 1)
    ELSE IF text[k] = "$" /\ k < Len(text) /\ text[k + 1] = "{"
            /\ \E j \in (k + 2)..Len(text) : text[j] = "}"
    THEN LET j == CHOOSE j \in (k + 2)..Len(text) :
                      text[j] = "}" /\ \A h \in (k + 2)..(j - 1) : text[h] # "}"
         IN Value(env, SubSeq(text, k + 2, j - 1)) \o Scanned(env, text, j + 1)
    ELSE <<text[k]>> \o Scanned(env, text, k + 1)

\* every name but one keeps the value it had
Kept(name) ==
    /\ DOMAIN w.env \subseteq DOMAIN w'.env
    /\ DOMAIN w'.env \subseteq DOMAIN w.env \cup {name}
    /\ \A n \in DOMAIN w.env \ {name} : w'.env[n] = w.env[n]

\* C22: export("NAME=VALUE") splits at the first `=`, expands the references
\* of VALUE against the environment as it is before the assignment and
\* stores the result under NAME, so PATH=$PATH:${PKGHOME}/bin extends the
\* old PATH; no other name changes, then or when a referenced name is
\* assigned later.
C22_Step ==
    /\ (w'.op = "export" /\ \E k \in 1..Len(w'.text) : w'.text[k] = "=")
       => LET k     == CHOOSE k \in 1..Len(w'.text) :
                           w'.text[k] = "=" /\ \A h \in 1..(k - 1) : w'.text[h] # "="
              name  == SubSeq(w'.text, 1, k - 1)
              value == SubSeq(w'.text, k + 1, Len(w'.text))
          IN /\ w'.exc.type = "None"
             /\ name \in DOMAIN w'.env
             /\ w'.env[name] = Scanned(w.env, value, 1)
             /\ Kept(name)
    /\ (w'.op = "export" /\ w'.text = <<"P", "=", "$", "P", ":", "$", "{", "K", "}", "/", "b">>
          /\ <<"/", "u", "/", "b">> = get(w.env, <<"P">>) /\ <<"/", "o">> = get(w.env, <<"K">>))
       => w'.env[<<"P">>] = <<"/", "u", "/", "b", ":", "/", "o", "/", "b">>
    /\ (w'.op = "export" /\ w'.text = <<"H", "=", "/", "x">> /\ <<"P">> \in DOMAIN w.env)
       => w'.env[<<"P">>] = w.env[<<"P">>]
    /\ (w'.op = "export" /\ w'.text = <<"A", "=", "b", "=", "c", "$", "H">> /\ <<"/", "u">> = get(w.env, <<"H">>))
       => w'.env[<<"A">>] = <<"b", "=", "c", "/", "u">>

C22_ExportExpandsOnce == [][C22_Step]_vars

C22_Witness ==
    /\ w.op = "export" /\ w.text = <<"H", "=", "/", "x">>
    /\ <<"/", "x">> = get(w.env, <<"H">>)
    /\ <<"/", "u", "/", "b", ":", "/", "o", "/", "b">> = get(w.env, <<"P">>)

\* C23: expand(text) replaces every $NAME and ${NAME} with the string form
\* of the value stored, a name that is missing or holds None with nothing,
\* and does not read again what it has put in, also when the text put in and
\* the text after it together spell a reference; an int 0 stored under `?`
\* expands to "0" and stays the int 0. expand changes no stored value.
C23_Step ==
    (w'.op = "expand")
    => /\ w'.result = Scanned(w.env, w'.text, 1)
       /\ Kept(<<>>) /\ DOMAIN w'.env = DOMAIN w.env
       /\ (w'.text = <<"$", "?">> /\ PyInt(0) = get(w.env, n_status))
             => (w'.result = <<"0">> /\ PyInt(0) = get(w'.env, n_status))
       /\ (w'.text = <<"$", "X">> /\ <<"$", "Y">> = get(w.env, <<"X">>)) => w'.result = <<"$", "Y">>
       /\ (w'.text = <<"$", "D", "{", "Y", "}">> /\ <<"$">> = get(w.env, <<"D">>)) => w'.result = <<"$", "{", "Y", "}">>
       /\ (w'.text = <<"$", "{", "D", "}", "Y">> /\ <<"$">> = get(w.env, <<"D">>)) => w'.result = <<"$", "Y">>
       /\ (w'.text = <<"$", "N", "O", "P", "E", ".">> /\ <<"N", "O", "P", "E">> \notin DOMAIN w.env) => w'.result = <<".">>

C23_ExpandOnePass == [][C23_Step]_vars

C23_Witness ==
    /\ w.op = "expand" /\ w.text = <<"$", "D", "{", "Y", "}">> /\ w.result = <<"$", "{", "Y", "}">>
    /\ <<"y", "y">> = get(w.env, <<"Y">>)

\* C24: inside double quotes a single quote opens a literal section that
\* runs to the next single quote; that quote flushes nothing and returns to
\* DoubleQuote, so the double-quoted section is one word, flushed at its
\* closing double quote: "a 'b' c" is the one word a b c.
C24_Step ==
    /\ (OneChar /\ w.current_state = 3 /\ Chunk[1] = "'")
          => (w'.current_state = 5 /\ w'.arg = w.arg /\ WordInProgress)
    /\ (OneChar /\ w.current_state = 5 /\ Chunk[1] # "'")
          => (w'.current_state = 5 /\ w'.arg = Append(w.arg, Chunk[1]) /\ WordInProgress)
    /\ (OneChar /\ w.current_state = 5 /\ Chunk[1] = "'")
          => (w'.current_state = 3 /\ w'.arg = w.arg /\ WordInProgress)

C24_QuoteInQuotes ==
    /\ [][C24_Step]_vars
    /\ [](fed = <<"\"", "a", " ", "'", "b", "'", " ", "c", "\"", nl>>
            => Dispatched(w) = << <<<<"a", " ", "b", " ", "c">>>> >>)

----------------------------------------------------------------------------
(* Claims about contexts and statements within a text *)

Script26 ==
    w_sub \o <<";">> \o w_echo \o <<";">> \o w_exit \o <<";">> \o w_echo \o <<";">>
        \o w_exit \o <<";">> \o w_echo \o <<nl>>

\* the context stack after the first k dispatched statements: a `sub` pushes
\* the context's sub-context, an `exit` pops
RECURSIVE StackAfter(_)
StackAfter(k) ==
    IF k = 0 THEN <<"A">>
    ELSE LET s == StackAfter(k - 1)
             a == w.calls[k].argv
         IN IF s = <<>> \/ a = <<>> THEN s
            ELSE IF a[1] = w_sub /\ Last(s) \in DOMAIN SubOf THEN Append(s, SubOf[Last(s)])
            ELSE IF a[1] = w_exit THEN Front(s)
            ELSE s

Terminator == OneChar /\ w.current_state = 0 /\ Chunk[1] \in {";", nl}

\* C26: a statement whose handler raises NewCommand pushes the new context,
\* and one whose handler raises CommandQuit pops the current one and hands
\* its value to the parent, before the next character is processed: every
\* later statement of the text goes to the context then on top, and once the
\* last context is popped nothing more of the text is dispatched.
C26_Step ==
    /\ (Terminator /\ Pending(w) = <<w_sub>> /\ w.controller \in DOMAIN SubOf)
          => /\ w'.cmds = Append(w.cmds, SubOf[w.controller])
             /\ w'.controller = SubOf[w.controller]
             /\ ~Raised(w')
    /\ (Terminator /\ Pending(w) = <<w_exit>> /\ Len(w.cmds) > 1)
          => /\ w'.cmds = Front(w.cmds)
             /\ w'.controller = w.cmds[Len(w.cmds) - 1]
             /\ w'.subs = Append(w.subs, [ctl |-> w'.controller, value |-> w_exit])
             /\ ~Raised(w')
    /\ (Terminator /\ Pending(w) = <<w_exit>> /\ Len(w.cmds) = 1)
          => /\ w'.cmds = <<>>
             /\ w'.exc.type = "CommandQuit"

C26_Stack ==
    /\ \A k \in 1..Len(w.calls) :
          /\ StackAfter(k - 1) # <<>>
          /\ w.calls[k].ctl = Last(StackAfter(k - 1))
    /\ w.cmds = StackAfter(Len(w.calls))
    /\ (fed = Script26)
          => ([k \in 1..Len(w.calls) |-> w.calls[k].ctl] = <<"A", "B", "B", "A", "A">>)

C26_ContextsWithinText ==
    [][C26_Step]_vars /\ [](mode \in {"script"} \cup Families => C26_Stack)

C26_Witness ==
    /\ fed = Script26 /\ ~split
    /\ Len(w.calls) = 5 /\ w.cmds = <<>> /\ w.exc.type = "CommandQuit"
    /\ w.subs = <<[ctl |-> "A", value |-> w_exit]>>

Cleared == w'.arg = <<>> /\ w'.arg_list = <<>> /\ w'.current_state = 0

\* C27: when a statement is handed to the dispatcher the lexer is in its
\* initial state and the word and the pending argument list are empty
\* already, whether the handler returns, fails or raises a signal that ends
\* the feed: no word of the statement is in a later one.
C27_Step ==
    /\ (OneChar /\ Len(w'.calls) > Len(w.calls))
          => (Terminator /\ Len(w'.calls) = Len(w.calls) + 1 /\ Cleared)
    /\ (~Raised(w) /\ Len(w'.calls) > Len(w.calls)
          /\ w'.exc.type \in FlowSignals \cup {"AttributeError"})
          => Cleared

C27_ClearedBeforeDispatch ==
    /\ [][C27_Step]_fed
    /\ [](fed = <<"e", " ", "a", ";">> \o w_intr \o <<";", "e", " ", "b", nl>>
            => Dispatched(w) = << <<<<"e">>, <<"a">>>>, <<w_intr>> >>)

C27_Witness ==
    /\ fed = <<"e", " ", "a", ";">> \o w_intr \o <<";", "e", " ", "b", nl>>
    /\ ~split /\ w.exc.type = "KeyboardInterrupt"
    /\ Len(w.calls) = 2 /\ w.arg = <<>> /\ w.arg_list = <<>>

\* the alias names substituted so far in the running pass
Substituted == {fed[k] : k \in 1..Len(fed)}

\* C25: the loop detection of _expand_aliases keeps the names of the
\* aliases substituted so far in the pass and stops only when the
\* replacement about to be spliced in starts with one of them; an alias not
\* yet substituted in the pass is substituted when it is at the first
\* position.
C25_Step ==
    (mode = "expand" /\ ~loop.done /\ IsAlias(w.aliases[w.controller], loop.argv[1]))
    => LET replacement == w.aliases[w.controller][loop.argv[1]] IN
       IF replacement[1] \in Substituted
       THEN loop'.done /\ loop'.argv = loop.argv
       ELSE ~loop'.done /\ loop'.argv = replacement \o Tail(loop.argv)

C25_LoopDetection == [][C25_Step]_loop

----------------------------------------------------------------------------
(* Claims about the generic FSM and the lexer's error transition *)

Sym == Last(fed')

\* the transition the lookup order names: the entry of (sym, state), else
\* that of (ANY, state), else the default transition
Found ==
    IF <<Sym, w.current_state>> \in DOMAIN w.transitions
    THEN w.transitions[<<Sym, w.current_state>>]
    ELSE IF <<ANY, w.current_state>> \in DOMAIN w.transitions
    THEN w.transitions[<<ANY, w.current_state>>]
    ELSE w.default_transition

\* C28: process(sym) uses the transition of (sym, current_state), else that
\* of (ANY, current_state), else the default transition when one is set, and
\* fails only when there is none of the three; the action, when there is
\* one, is called with (sym, machine) before current_state becomes the next
\* state, and a next state of None leaves current_state alone.
C28_Step ==
    (mode = "fsm" /\ Len(fed') = Len(fed) + 1)
    => IF Found = NoDefault
       THEN Raised(w') /\ w'.current_state = w.current_state
       ELSE /\ ~Raised(w')
            /\ \E x \in {action(Found[1], w, Sym)} :
                  w' = IF Found[2] = NoState THEN x
                       ELSE [x EXCEPT !.current_state = Found[2]]

C28_TransitionLookup == [][C28_Step]_fed

NoTransition ==
    /\ <<Sym, w.current_state>> \notin DOMAIN w.transitions
    /\ <<ANY, w.current_state>> \notin DOMAIN w.transitions

SyntaxError == [ch |-> "error", msg |-> "Syntax error", arg |-> <<Sym>>]

\* C29: on a symbol that has no transition in the current state the lexer's
\* error transition reports a syntax error that names the symbol, returns to
\* Bare with an empty stack, and discards the word in progress and the
\* pending argument list.
C29_Step ==
    (mode = "fsm" /\ Len(fed') = Len(fed) + 1)
    => /\ (NoTransition /\ w.default_transition = <<"_error", 0>>)
             => /\ ~Raised(w')
                /\ w'.out = Append(w.out, SyntaxError)
                /\ w'.current_state = 0 /\ w'.stack = <<>>
       /\ (Len(w'.out) > Len(w.out) /\ Last(w'.out).msg = "Syntax error")
             => (w'.arg = <<>> /\ w'.arg_list = <<>>)

NameValue == Value(w.environ[EnvOf[w.controller]], Tail(w.varname))

\* C30: `{` opens the braced form only when it is the character right after
\* `$`; once a name character has been read, the first character that is not
\* one, `{` included, ends the name: the name's value is appended and the
\* character is read again, as text, in the state that asked for the
\* variable.
C30_Step ==
    (OneChar /\ w.current_state \in {7, 8} /\ Chunk[1] = "{")
    => IF w.varname = <<"$">>
       THEN /\ w'.current_state = (IF w.current_state = 7 THEN 9 ELSE 10)
            /\ w'.varname = <<"$", "{">>
            /\ w'.arg = w.arg /\ WordInProgress
       ELSE /\ w'.current_state = (IF w.current_state = 7 THEN 0 ELSE 3)
            /\ w'.arg = (w.arg \o NameValue) \o <<"{">>
            /\ WordInProgress

C30_BraceOnlyAfterDollar == [][C30_Step]_fed

----------------------------------------------------------------------------
(* Claims about sub-states, aliases, reports and frames *)

\* the state that asked for the escape or the variable the lexer is reading
Requester == IF w.current_state \in {1, 7, 9} THEN 0 ELSE 3

\* C31: the escape and variable sub-states return to the state that asked
\* for them: the character after a backslash, the `}` of a braced reference
\* and the character that ends an unbraced name leave the lexer in
\* DoubleQuote when the escape or reference began inside double quotes and
\* in Bare when it began in Bare, and dispatch nothing; back in DoubleQuote
\* a space, a tab, `;` and a newline are added to the quoted word and
\* dispatch nothing.
C31_Step ==
    OneChar =>
       /\ (w.current_state \in {1, 6})
             => w'.current_state = Requester /\ WordInProgress
       /\ (w.current_state \in {9, 10} /\ Chunk[1] = "}")
             => w'.current_state = Requester /\ WordInProgress
       /\ (w.current_state \in {7, 8} /\ ~IsVarChar(Chunk[1]) /\ Chunk[1] # "{")
             => /\ w'.current_state = Requester
                /\ w'.calls = w.calls /\ w'.arg_list = w.arg_list
       /\ (w.current_state = 3 /\ Chunk[1] \in {" ", "\t", ";", nl})
             => /\ w'.current_state = 3
                /\ w'.arg = Append(w.arg, Chunk[1])
                /\ WordInProgress

C32_NonEmptyReplacements ==
    \A c \in Controllers : \A n \in DOMAIN w.aliases[c] : w.aliases[c][n] # <<>>

\* a handler was invoked and ended with an exception that is not one of the
\* flow signals (an IndexError is reported by its depth, see C16)
Failed ==
    /\ NewEntry /\ Entry.name # None
    /\ Handled.exc.type \notin (FlowSignals \cup {"None", "IndexError"})

Report(channel, text, word) == [ch |-> channel, msg |-> text, arg |-> word]

\* C33: call gives each reportable failure of a handler its own report and
\* then returns normally with no result: a CLISyntaxError prints `Syntax
\* error` with the error's value and then the handler's usage text, an
\* option-parsing error prints the option and its message, any other failure
\* that is not a flow signal goes to except_hook; none of them leaves call.
C33_Step ==
    Failed =>
       /\ ~Raised(w')
       /\ w'.rv = None
       /\ w'.out = Handled.out \o
             (CASE Handled.exc.type = "CLISyntaxError" ->
                     <<Report("printf", "Syntax error", Handled.exc.value),
                       Report("print", "usage", Entry.name)>>
                [] Handled.exc.type = "GetoptError" ->
                     <<Report("print", "option", Handled.exc.value)>>
                [] OTHER -> <<Report("error", "except_hook", Handled.exc.value)>>)

C33_FailuresReported == [][C33_Step]_w

\* C34: a closing quote always flushes the word read so far, even when it
\* is empty: `''` and `""` standing alone are one empty-string argument each.
\* A blank flushes the word only when there is one, so runs of blanks add no
\* argument, an empty line dispatches no argument at all, and a braced
\* reference outside quotes to a variable with no value adds nothing.
C34_Step ==
    OneChar =>
       /\ (\/ w.current_state \in {2, 5} /\ Chunk[1] = "'"
           \/ w.current_state = 3 /\ Chunk[1] = "\"")
             => /\ w'.arg_list = Append(w.arg_list, w.arg)
                /\ w'.arg = <<>> /\ w'.calls = w.calls
       /\ (w.current_state = 0 /\ Chunk[1] \in {" ", "\t"})
             => /\ w'.arg_list = Pending(w)
                /\ w'.arg = <<>> /\ w'.calls = w.calls
       /\ (w.current_state = 0 /\ Chunk[1] = nl /\ Pending(w) = <<>>)
             => Dispatched(w') = Append(Dispatched(w), <<>>)
       /\ (/\ w.current_state = 9 /\ Chunk[1] = "}"
           /\ SubSeq(w.varname, 1, 2) = <<"$", "{">> /\ BracedValue = <<>>)
             => w'.arg = w.arg /\ WordInProgress

C34_ClosingQuoteFlushes ==
    /\ [][C34_Step]_fed
    /\ [](fed = <<"'", "'", nl>> => Dispatched(w) = << <<<<>>>> >>)
    /\ [](fed = <<"\"", "\"", nl>> => Dispatched(w) = << <<<<>>>> >>)
    /\ [](fed = <<"'", "'", " ", "\"", "\"", nl>> => Dispatched(w) = << <<<<>>, <<>>>> >>)
    /\ [](fed = <<"e", " ", " ", "$", "{", "N", "}", " ", "\t", nl>>
            => Dispatched(w) = << <<<<"e">>>> >>)

C34_Witness ==
    /\ fed = <<"'", "'", " ", "\"", "\"", nl>>
    /\ split
    /\ Dispatched(w) = << <<<<>>, <<>>>> >>

\* the names get_commands lists for a context
Documented(ctl) == {CommandList(ctl)[k] : k \in 1..Len(CommandList(ctl))}

\* C35: every handler call invokes is a documented command of the current
\* context (one get_commands lists) or the context's default handler: for
\* every alias table and every statement, no member whose name starts with
\* `_` and no undocumented member is invoked.
C35_Step ==
    (NewEntry /\ Entry.name # None)
    => /\ Entry.name \in Documented(Entry.ctl) \cup {w_default}
       /\ ~startswith(Entry.name, "_")

C35_OnlyDocumentedInvoked == [][C35_Step]_w

\* C36: whenever feed returns 0 for a text that ends with a newline, nothing
\* is pending: the word accumulator and the pending word list are empty, all
\* the words of the text having been dispatched; so the primary prompt of
\* interact is shown only when no part of a statement is held.
C36_NothingPendingAtZero ==
    (ret = 0 /\ fed # <<>> /\ Last(fed) = nl /\ ~Raised(w))
    => w.arg = <<>> /\ w.arg_list = <<>>

\* two values read from an environment are the same: both missing or equal
Same(a, b) == IF a = None THEN b = None ELSE a = b

\* the environment call works on: what the handler left when one was
\* invoked, the environment before the statement when none was
Base ==
    IF Entry.name = None THEN w.environ[EnvOf[Entry.ctl]]
    ELSE Handled.environ[EnvOf[Entry.ctl]]

\* C37: call leaves `_` and `?` as they are whenever it does not obtain a
\* result other than None: when the handler returns None, when the handler
\* fails, when the statement is ignored with status 2 and when it is a `#`
\* comment; after such a statement `?` still holds the status of an earlier
\* statement.
C37_Step ==
    (NewEntry /\ ~ReturnedValue)
    => /\ Same(get(Base, n_last), EnvAfter(n_last))
       /\ Same(get(Base, n_status), EnvAfter(n_status))

C37_Earlier ==
    (/\ mode = "handlers" /\ Len(w.calls) = 2
     /\ w.calls[1].argv = <<w_setenv, n_last, <<"1", "2">>>>
     /\ w.calls[2].argv \in {<<w_boom>>, <<w_printf>>, <<w_usage>>, <<w_setup>>, <<>>,
                             <<<<"#", "l", "s">>>>, <<w_opt>>, <<w_deep>>,
                             <<w_unset, n_last>>})
    => /\ PyInt(12) = get(w.environ["e1"], n_status)
       /\ w.calls[2].argv # <<w_unset, n_last>>
             => <<"1", "2">> = get(w.environ["e1"], n_last)

C37_StatusFrame == [][C37_Step]_w /\ []C37_Earlier

C37_Witness ==
    /\ mode = "handlers" /\ Len(w.calls) = 2
    /\ w.calls[1].argv = <<w_setenv, n_last, <<"1", "2">>>>
    /\ w.calls[2].argv = <<w_boom>> /\ w.calls[2].hexc.type = "ValueError"
    /\ PyInt(12) = get(w.environ["e1"], n_status)

\* values a variable may hold: nothing, and the characters that split
\* words, end statements, quote, escape and start a reference
Values ==
    {<<>>, <<" ">>, <<"\t">>, <<";">>, <<nl>>, <<"'">>, <<"\"">>, <<"\\">>, <<"$", "H">>,
     <<"a", " ", "b", ";", "c", nl, "\"">>}

\* the lexer of this step, in an environment that differs only in the value
\* of the name being referred to
Elsewhere(val) ==
    [w EXCEPT !.environ[EnvOf[w.controller]] =
                 setitem(@, SubSeq(w.varname, 3, Len(w.varname)), val)]

\* C38: the text a variable reference inserts is not tokenized again: the
\* value is appended to the current word, whatever characters it holds. For
\* two environments that differ only in the value of NAME, reading the `}` of
\* `${NAME}` leaves the lexer in the same state, with as many pending words
\* and as many dispatched statements; a value adds no word, ends no
\* statement and opens no quote.
C38_Step ==
    (/\ OneChar /\ w.current_state \in {9, 10} /\ Chunk[1] = "}"
     /\ SubSeq(w.varname, 1, 2) = <<"$", "{">>)
    => /\ w'.arg = w.arg \o BracedValue
       /\ \A val \in Values :
            LET other == feed(Elsewhere(val), Chunk) IN
            /\ ~Raised(other)
            /\ other.arg = w.arg \o val
            /\ other.current_state = w'.current_state
            /\ other.arg_list = w'.arg_list
            /\ other.calls = w'.calls
            /\ other.stack = w'.stack
            /\ (val # <<>> /\ BracedValue # <<>>)
                  => Len(Pending(other)) = Len(Pending(w'))

C38_Value == <<";", " ", "\"", "$", "H", "\\">>

C38_Text ==
    (w_setenv \o <<" ", "H", " ", "'", ";", " ", "\"", "$", "H", "\\", "'", nl>>)
        \o <<"e", " ", "$", "{", "H", "}", " ", "\"", "$", "{", "H", "}", "\"", nl>>

C38_NotTokenizedAgain ==
    /\ [][C38_Step]_fed
    /\ [](fed = C38_Text
            => Dispatched(w) = << <<w_setenv, <<"H">>, C38_Value>>,
                                  <<<<"e">>, C38_Value, C38_Value>> >>)

C38_Witness ==
    /\ fed = C38_Text
    /\ split
    /\ Dispatched(w)[2] = <<<<"e">>, C38_Value, C38_Value>>

\* the dispatch log entries the step adds
Added == SubSeq(w'.calls, Len(w.calls) + 1, Len(w'.calls))

\* C39: after any sequence of push_command, pop_command and feed, whenever
\* the context stack is not empty the current controller is its last
\* element, and a statement is dispatched to the element that is last when
\* it is dispatched, never to a context that has been popped.
C39_Top == w.cmds # <<>> => w.controller = Last(w.cmds)

C39_Step ==
    (w.cmds # <<>> /\ IsPrefix(w.calls, w'.calls) /\ Added # <<>>)
    => /\ Added[1].ctl = Last(w.cmds)
       /\ Len(Added) <= 2
       /\ Len(Added) = 2
             => /\ Added[2].argv = <<<<"e">>>>
                /\ w'.cmds # <<>> /\ Added[2].ctl = Last(w'.cmds)

C40_Step ==
    (Happened("eof") /\ w'.cmds # <<>>)
    => /\ w'.current_state = 0
       /\ w'.arg = <<>> /\ w'.arg_list = <<>>
       /\ w'.varname = <<>> /\ w'.stack = <<>>

C40_CleanAfterEndOfInput == [][C40_Step]_fed

====
